---- MODULE Spec2Model ----
(***************************************************************************)
(* ClientEngine.requestBatch of the client engine: the batch executor      *)
(* (multi and compacted mode), the implicit transaction it opens on the    *)
(* Transaction Manager, the reconstruction of per-request results from a   *)
(* compacted rowset and the request-error transform.                       *)
(*                                                                         *)
(* An action is one continuation of the async code: what runs between two  *)
(* awaits.  The Transaction Manager, the query interpreter, doKeysMatch and *)
(* deserializeJsonResponse live in other packages; they are modelled from   *)
(* their contracts.                                                        *)
(*                                                                         *)
(* Spec is requestBatch under a concurrent caller (its own interactive     *)
(* transaction) and the timeout watchdog.  SpecCompacted is one caller     *)
(* running compacted batches, over every response and merged rowset.       *)
(* SpecClassify applies the two error classifiers to every shape of        *)
(* failure.  SpecIsolation is transaction('start') at every isolation      *)
(* level, on providers with and without snapshot isolation.  SpecTx is the *)
(* Transaction Manager at its limit of RUNNING transactions, next to a     *)
(* batch in an implicit transaction; SpecTxFair adds the fairness of the   *)
(* timeout watchdog.  SpecExecute is request and LocalExecutor.execute,    *)
(* inside and outside a transaction, with and without a read replica.      *)
(* SpecManager is the life of transactions next to ClientEngine.stop and   *)
(* LocalExecutor.disconnect; SpecCancel is shutdown while requests and     *)
(* batches name the callers' transactions.  SpecConstruct is the           *)
(* constructor over every configuration, SpecPanic nested calls of         *)
(* #withLocalPanicHandler, SpecJoin one Join of any two rowsets.           *)
(***************************************************************************)
EXTENDS Integers, Sequences, FiniteSets, TLC

\* ------------------------------------------------------------------ bounds
MaxRows == 2       \* rows of a merged rowset
MaxQueries == 2    \* queries of one batch, under concurrent transactions and timeouts
MaxArguments == 3  \* queries (argument sets) of one compacted batch, one caller alone
MaxWaiting == 2    \* startTransaction calls waiting for a slot at one time
MaxJoinRows == 2   \* rows of the parent and of the child rowset of a Join
MaxDepth == 3      \* nested calls of #withLocalPanicHandler

\* ------------------------------------------------------------------ values
\* item[key] of a row that has no such column (JS undefined)
Missing == 0
\* the scalar values a column holds
ColVals(c) == IF c = "id" THEN {1, 2, 3} ELSE {1, 2}
Columns == {"id", "name"}
Actions == {"findUnique", "findUniqueOrThrow"}
\* the ids the Transaction Manager hands out
TxIds == {1, 2, 3}
\* the number of leaf statements of a plan
PlanSizes == {1, 2}
\* the id of "no transaction"
NoTx == 0

Range(s) == {s[i] : i \in 1..Len(s)}
SeqsUpTo(S, n) == UNION {[1..m -> S] : m \in 0..n}
SeqsOfLen(S, n) == [1..n -> S]

\* rows of one rowset all carry the same columns
RowsOver(cols) == {r \in [cols -> {1, 2, 3}] : \A c \in cols : r[c] \in ColVals(c)}
RowSets == UNION {SeqsUpTo(RowsOver(cols), MaxRows) : cols \in (SUBSET Columns) \ {{}}}
KeyLists == {<<"id">>, <<"name">>, <<"id", "name">>}

\* ------------------------------------------------------------------ errors
\* a failure: its class ("string" for a thrown string, whose text is `message`), and
\* its code, message and meta properties ("" when it has none)
MkError(cls, code, message) == [cls |-> cls, code |-> code, message |-> message, meta |-> ""]
NoError == MkError("", "", "")
\* a business error raised by the interpreter (UserFacingError)
BusinessError == MkError("UserFacingError", "P2002", "Unique constraint failed")
\* an infrastructure failure raised by the driver adapter (a plain Error)
InfraError == MkError("Error", "", "Connection lost")
PanicError == MkError("Error", "GenericFailure", "PANIC: unreachable")
\* a thrown string that holds the JSON of a RustRequestError
JsonStringError == MkError("string", "", "{\"message\":\"boom\",\"backtrace\":\"at f\"}")
InitError == MkError("PrismaClientInitializationError", "P2038", "init failed")
CompileError == MkError("Error", "P2009", "Failed to validate the query")
SameActionError == MkError("Error", "", "All queries in a batch must have the same action")
TransactionClosedError == MkError("TransactionManagerError", "", "TransactionClosed")
TransactionBusyError == MkError("TransactionManagerError", "", "Busy")
RecordNotFoundError ==
  MkError("PrismaClientKnownRequestError", "P2025",
          "An operation failed because it depends on one or more records that were required but not found")
PlanErrors == {BusinessError, InfraError, PanicError, JsonStringError}

\* the title followed by the report text and link
getErrorMessageWithLink(title) ==
  title \o "\n\nThis is a non-recoverable error which probably happens when the Prisma Query Engine has a panic."
\* message.startsWith('PANIC:'), for the texts that occur
PanicTitles == {"PANIC: unreachable", "PANIC: overflow"}
startsWithPANIC(message) ==
  message \in PanicTitles \cup {getErrorMessageWithLink(title) : title \in PanicTitles}

\* JSON.parse(err as string): the texts that parse, and the message and backtrace
\* properties of what they parse to
JsonTexts == {"{\"message\":\"boom\",\"backtrace\":\"at f\"}", "{}"}
parses(err) == err.cls = "string" /\ err.message \in JsonTexts
parsedMessage(text) == IF text = "{}" THEN "undefined" ELSE "boom"
parsedBacktrace(text) == IF text = "{}" THEN "undefined" ELSE "at f"

\* new PrismaClientKnownRequestError(message, { code, meta })
KnownRequestError(message, code, meta) ==
  [MkError("PrismaClientKnownRequestError", code, message) EXCEPT !.meta = meta]

\* mutant: the UserFacingError test comes before the test of the crash marker
transformRequestErrorKnownFirst(err) ==
  IF err.cls = "PrismaClientInitializationError" THEN err
  ELSE IF err.cls = "UserFacingError"
    THEN KnownRequestError(err.message, err.code, err.meta)
  ELSE IF err.cls # "string" /\ err.code = "GenericFailure" /\ startsWithPANIC(err.message)
    THEN MkError("PrismaClientRustPanicError", "", getErrorMessageWithLink(err.message))
  ELSE IF parses(err)
    THEN MkError("PrismaClientUnknownRequestError", "",
                 parsedMessage(err.message) \o "\n" \o parsedBacktrace(err.message))
  ELSE err

\* mutant: the crash marker is the message alone, whatever the code
transformRequestErrorAnyCode(err) ==
  IF err.cls = "PrismaClientInitializationError" THEN err
  ELSE IF err.cls # "string" /\ startsWithPANIC(err.message)
    THEN MkError("PrismaClientRustPanicError", "", getErrorMessageWithLink(err.message))
  ELSE IF err.cls = "UserFacingError"
    THEN KnownRequestError(err.message, err.code, err.meta)
  ELSE IF parses(err)
    THEN MkError("PrismaClientUnknownRequestError", "",
                 parsedMessage(err.message) \o "\n" \o parsedBacktrace(err.message))
  ELSE err

transformRequestError(err) ==
  IF err.cls = "PrismaClientInitializationError" THEN err
  ELSE IF err.cls # "string" /\ err.code = "GenericFailure" /\ startsWithPANIC(err.message)
    THEN MkError("PrismaClientRustPanicError", "", getErrorMessageWithLink(err.message))
  ELSE IF err.cls = "UserFacingError"
    THEN KnownRequestError(err.message, err.code, err.meta)
  ELSE IF parses(err)
    THEN MkError("PrismaClientUnknownRequestError", "",
                 parsedMessage(err.message) \o "\n" \o parsedBacktrace(err.message))
  ELSE err

\* typeof error['message'] === 'string' && typeof error['code'] === 'string'
transformCompileError(error) ==
  IF error.cls = "PrismaClientRustPanicError" THEN error
  ELSE IF error.cls # "string" /\ error.message # "" /\ error.code # ""
    THEN KnownRequestError(error.message, error.code, error.meta)
  ELSE error

\* ------------------------------------------------- #convertCompactedRows
\* a slot of the result list: { data: { [action]: row } }, { data: { [action]: null } },
\* or an error object
DataResult(action, row) ==
  [kind |-> "data", action |-> action, isNull |-> FALSE, row |-> row, err |-> NoError]
NullResult(action) ==
  [kind |-> "data", action |-> action, isNull |-> TRUE, row |-> <<>>, err |-> NoError]
ErrorResult(e) ==
  [kind |-> "error", action |-> "", isNull |-> FALSE, row |-> <<>>, err |-> e]

Cell(item, key) == IF key \in DOMAIN item THEN item[key] ELSE Missing

deserializeJsonResponse(result) == IF result = Missing THEN Missing ELSE result

doKeysMatch(lhs, rhs) ==
  \A k \in DOMAIN rhs : k \in DOMAIN lhs /\ lhs[k] = rhs[k]

keysPerRow(rows, response) ==
  [r \in 1..Len(rows) |->
     [key \in Range(response.keys) |-> deserializeJsonResponse(Cell(rows[r], key))]]

\* Array.prototype.findIndex: the first index that matches, 0 (JS -1) when none does
findIndex(kpr, args) ==
  LET matching == {j \in 1..Len(kpr) : doKeysMatch(kpr[j], args)}
  IN IF matching = {} THEN 0 ELSE CHOOSE j \in matching : \A h \in matching : j <= h

\* mutant: the filter on the selection is dropped
selectedUnfiltered(row, selection) == row

selected(row, selection) == [k \in (DOMAIN row) \cap selection |-> row[k]]

\* mutant: the test of expectNonEmpty is inverted
convertCompactedSlotInverted(rows, kpr, response, action, args) ==
  LET rowIndex == findIndex(kpr, args)
  IN IF rowIndex = 0
       THEN IF ~response.expectNonEmpty
              THEN ErrorResult(RecordNotFoundError)
              ELSE NullResult(action)
       ELSE DataResult(action, selected(rows[rowIndex], response.nestedSelection))

\* mutant: the first row is returned instead of the row at rowIndex
convertCompactedSlotFirstRow(rows, kpr, response, action, args) ==
  LET rowIndex == findIndex(kpr, args)
  IN IF rowIndex = 0
       THEN IF response.expectNonEmpty
              THEN ErrorResult(RecordNotFoundError)
              ELSE NullResult(action)
       ELSE DataResult(action, selected(rows[1], response.nestedSelection))

\* the callback of response.arguments.map, kpr being keysPerRow
convertCompactedSlot(rows, kpr, response, action, args) ==
  LET rowIndex == findIndex(kpr, args)
  IN IF rowIndex = 0
       THEN IF response.expectNonEmpty
              THEN ErrorResult(RecordNotFoundError)
              ELSE NullResult(action)
       ELSE DataResult(action, selected(rows[rowIndex], response.nestedSelection))

\* mutant: the results are built from the last argument to the first
convertCompactedRowsReversed(rows, response, action) ==
  LET kpr == keysPerRow(rows, response)
  IN [i \in 1..Len(response.arguments) |->
        convertCompactedSlot(rows, kpr, response, action,
                             response.arguments[Len(response.arguments) + 1 - i])]

convertCompactedRows(rows, response, action) ==
  LET kpr == keysPerRow(rows, response)
  IN [i \in 1..Len(response.arguments) |->
        convertCompactedSlot(rows, kpr, response, action, response.arguments[i])]

\* ------------------------------------------------- #convertIsolationLevel
Undefined == "undefined"
IsolationLevels ==
  {"ReadUncommitted", "ReadCommitted", "RepeatableRead", "Serializable", "Snapshot"}
\* what a caller passes as isolationLevel: nothing, a level, or something else
RequestedLevels == IsolationLevels \cup {Undefined, "Chaos"}

\* the default branch of the switch throws
convertIsolationLevelThrows(clientIsolationLevel) ==
  clientIsolationLevel \notin IsolationLevels \cup {Undefined}

InvalidIsolationLevelError(clientIsolationLevel) ==
  [MkError("PrismaClientKnownRequestError", "P2023",
           "Inconsistent column data: Conversion failed: Invalid isolation level")
     EXCEPT !.meta = clientIsolationLevel]

\* mutant: RepeatableRead is mapped to the level of ReadCommitted
convertIsolationLevelMixed(clientIsolationLevel) ==
  CASE clientIsolationLevel = Undefined -> Undefined
    [] clientIsolationLevel = "ReadUncommitted" -> "READ UNCOMMITTED"
    [] clientIsolationLevel = "ReadCommitted" -> "READ COMMITTED"
    [] clientIsolationLevel = "RepeatableRead" -> "READ COMMITTED"
    [] clientIsolationLevel = "Serializable" -> "SERIALIZABLE"
    [] clientIsolationLevel = "Snapshot" -> "SNAPSHOT"

convertIsolationLevel(clientIsolationLevel) ==
  CASE clientIsolationLevel = Undefined -> Undefined
    [] clientIsolationLevel = "ReadUncommitted" -> "READ UNCOMMITTED"
    [] clientIsolationLevel = "ReadCommitted" -> "READ COMMITTED"
    [] clientIsolationLevel = "RepeatableRead" -> "REPEATABLE READ"
    [] clientIsolationLevel = "Serializable" -> "SERIALIZABLE"
    [] clientIsolationLevel = "Snapshot" -> "SNAPSHOT"

\* ------------------------------------------------- Transaction Manager
UnsupportedOperationError ==
  MkError("UnsupportedOperationError", "", "isolation level not supported by the provider")
\* the names of the levels the driver adapter is asked for
SqlIsolationLevels ==
  {"READ UNCOMMITTED", "READ COMMITTED", "REPEATABLE READ", "SERIALIZABLE", "SNAPSHOT"}
\* the level of an id no transaction was registered under
NoLevel == "none"
\* the largest numbers of concurrently RUNNING transactions a configuration allows
TransactionLimits == {1, 2}

RunningCount(status) == Cardinality({t \in TxIds : status[t] = "RUNNING"})

TxStatuses == {"NONE", "RUNNING", "COMMITTED", "ROLLED_BACK", "TIMED_OUT"}

hasFreeTx(status) == \E t \in TxIds : status[t] = "NONE"
freshTx(status) ==
  CHOOSE t \in TxIds : status[t] = "NONE" /\ \A u \in 1..(t - 1) : status[u] # "NONE"

\* mutant: getTransaction still hands out the Queryable of a committed transaction
getTransactionOkCommitted(status, id) == id \in TxIds /\ status[id] \in {"RUNNING", "COMMITTED"}

\* getTransaction: the bound Queryable of a RUNNING transaction, else TransactionClosed
getTransactionOk(status, id) == id \in TxIds /\ status[id] = "RUNNING"

\* ------------------------------------------------- batch inputs
NoResponse ==
  [type |-> "none", plans |-> <<>>, keys |-> <<>>, arguments |-> <<>>,
   expectNonEmpty |-> FALSE, nestedSelection |-> {}]

MultiResponses(n) ==
  {[type |-> "multi", plans |-> p, keys |-> <<>>, arguments |-> <<>>,
    expectNonEmpty |-> FALSE, nestedSelection |-> {}] : p \in SeqsOfLen(PlanSizes, n)}

CompactedResponses(n) ==
  UNION {
    {[type |-> "compacted", plans |-> <<>>, keys |-> ks, arguments |-> as,
      expectNonEmpty |-> e, nestedSelection |-> sel] :
        as \in SeqsOfLen(RowsOver(Range(ks)), n), e \in BOOLEAN,
        sel \in (SUBSET Columns) \ {{}}}
    : ks \in KeyLists}

BatchResponses(n) == MultiResponses(n) \cup CompactedResponses(n)

\* the responses and rowsets the concurrent specification draws from: every multi
\* response, and the compacted responses correlated on the `id` column
ProtocolResponses(n) ==
  MultiResponses(n)
    \cup {r \in CompactedResponses(n) : r.keys = <<"id">> /\ r.nestedSelection = {"name"}}
ProtocolRowSets == SeqsUpTo({r \in RowsOver(Columns) : r.name = 1}, MaxRows)
\* what a slot of a multi batch fails with
SlotErrors == {BusinessError, InfraError}

LogEvent(op, tx) == [op |-> op, tx |-> tx]
\* what the plan of slot i evaluates to (multi mode)
PlanRows(i) == [c \in {"plan"} |-> i]

VARIABLES
  pc,             \* position of the requestBatch call
  queries,        \* the actions of the queries of the batch
  transaction,    \* the `transaction` option: [kind, id]
  batchResponse,  \* what compileBatch returned
  txInfo,         \* the transaction the batch runs on
  queryable,      \* the transaction whose Queryable the plans run on
  slots,          \* multi mode: the state of each interpreter.run
  rows,           \* compacted mode: the merged rowset the shared plan returned
  executed,       \* compacted mode: the calls of interpreter.run on the shared plan
  results,        \* the result list
  error,          \* what requestBatch rejected with
  log,            \* the calls of this.transaction made by requestBatch, in order
  txStatus,       \* Transaction Manager registry: status per id
  callerTx        \* ids handed to the caller by transaction('start')

\* the error classifiers called on their own
VARIABLES
  raw,            \* the failure handed to the classifier
  returned,       \* what the classifier handed back
  via             \* the classifier that was called: "request" or "compile"

classifierVars == <<raw, returned, via>>

\* request and LocalExecutor.execute
VARIABLES
  hasReplica,     \* configuration: a driverAdapterReplicaFactory is given
  run             \* the last request or execute call: where it ran and what came of it

executorVars == <<hasReplica, run>>

\* construction and shutdown
VARIABLES
  options,        \* the EngineConfig the constructor was called with
  settings,       \* the fields the constructor derives from it
  engine,         \* what the constructor did and how the query compiler came up
  shutdown        \* ClientEngine.stop or LocalExecutor.disconnect: position and calls made

constructed == <<options, settings, engine>>
lifecycleVars == <<constructed, shutdown>>

\* the process-wide panic registry and the calls of #withLocalPanicHandler
VARIABLES
  set_message,    \* PRISMA_WASM_PANIC_REGISTRY.set_message: 0 is the fallback handler,
                  \* k the local handler of the call at depth k
  frames,         \* the calls of #withLocalPanicHandler that have not ended, outermost first
  call            \* how the last call to end ended

panicVars == <<set_message, frames, call>>

\* the Join node of the interpreter
VARIABLES
  joined          \* the last Join evaluated: its inputs and its result

joinVars == <<joined>>

\* the state added to the engine by its other operations
further == <<lifecycleVars, panicVars, joinVars>>
\* the state requestBatch and transaction leave alone
outside == <<classifierVars, executorVars, further>>

\* the Transaction Manager and the caller's calls of transaction()
VARIABLES
  maxTransactions,    \* configuration: the limit of concurrently RUNNING transactions
  snapshotSupported,  \* whether the provider has snapshot isolation
  txLevel,            \* the isolation level each transaction was started with
  acquired,           \* the connections acquired for each transaction
  released,           \* the connections released for each transaction
  waiting,            \* the startTransaction calls that wait for a free slot
  txCall              \* the last call of transaction() that returned to the caller

managerVars == <<maxTransactions, snapshotSupported, txLevel, acquired, released, waiting, txCall>>

\* the state of requestBatch and of the transactions
engineVars == <<pc, queries, transaction, batchResponse, txInfo, queryable, slots, rows, executed,
                results, error, log, txStatus, callerTx, managerVars>>

vars == <<engineVars, outside>>

\* ------------------------------------------------- LocalExecutor
readOperations ==
  {"findFirst", "findFirstOrThrow", "findMany", "findUnique", "findUniqueOrThrow", "groupBy",
   "aggregate", "count", "findRaw", "aggregateRaw"}
\* the operations of a request: the reads of the list, and others
Operations ==
  readOperations \cup {"createOne", "updateOne", "deleteMany", "upsertOne", "queryRaw", "executeRaw"}

\* where a plan runs: the Queryable of a transaction, the primary adapter, the replica
\* adapter, or nowhere (getTransaction threw)
TxQueryable(id) == [kind |-> "transaction", id |-> id]
Primary == [kind |-> "primary", id |-> NoTx]
Replica == [kind |-> "replica", id |-> NoTx]
Nowhere == [kind |-> "none", id |-> NoTx]

\* a request or execute call: who ran it, the operation, the transaction it carries,
\* the Queryable handed to interpreter.run, whether the interpreter was given the
\* transaction manager, the calls of interpreter.run and the failure handed back
Run(by, operation, tx, q, enabled, runs, e) ==
  [by |-> by, operation |-> operation, tx |-> tx, queryable |-> q, enabled |-> enabled,
   runs |-> runs, error |-> e]
NoRun == Run("", "", NoTx, Nowhere, FALSE, 0, NoError)

\* ------------------------------------------------- construction and shutdown
\* the engine: the constructor's outcome ("new" before it ran), what it threw, the
\* calls of adapter.connect, adapterPromise ("none", "pending", "connected", "failed"),
\* the Transaction Managers created, and instantiateQueryCompilerPromise ("none",
\* "pending", "ready", or "failed" when it rejected)
Engine(state, e, connects, adapter, managers, compiler) ==
  [state |-> state, error |-> e, connects |-> connects, adapter |-> adapter,
   managers |-> managers, compiler |-> compiler]
NewEngine == Engine("new", NoError, 0, "none", 0, "none")

\* a call of #withLocalPanicHandler that ended at `depth`: how ("return" or "throw"),
\* and what it threw
CallEnded(depth, how, e) == [depth |-> depth, how |-> how, error |-> e]
NoCallEnded == CallEnded(0, "", NoError)

\* a Join: the parent rows, the child rows, the cardinality, and the result
Joined(parents, children, cardinality, result) ==
  [parents |-> parents, children |-> children, cardinality |-> cardinality,
   result |-> result]
NoJoin == Joined(<<>>, <<>>, "", <<>>)

\* an EngineConfig, and the build it runs in; an absent previewFeatures is the list
\* that holds nothing but Undefined, and the booleans are written as strings
NoFeatures == {Undefined}
PreviewFeatures == {NoFeatures} \cup SUBSET {"driverAdapters", "relationJoins"}
BuildTypes == {"client", "wasm-compiler-edge", "library"}
EngineConfigs ==
  [previewFeatures : PreviewFeatures, adapter : {Undefined, "adapter"},
   TARGET_BUILD_TYPE : BuildTypes, logQueries : {Undefined, "true", "false"},
   logLevel : {Undefined, "info"}, enableDebugLogs : BOOLEAN,
   isolationLevel : {Undefined, "Serializable", "Chaos"}]
NoOptions ==
  [previewFeatures |-> NoFeatures, adapter |-> Undefined, TARGET_BUILD_TYPE |-> Undefined,
   logQueries |-> Undefined, logLevel |-> Undefined, enableDebugLogs |-> FALSE,
   isolationLevel |-> Undefined]
DefaultOptions ==
  [previewFeatures |-> {"driverAdapters"}, adapter |-> "adapter",
   TARGET_BUILD_TYPE |-> "client", logQueries |-> Undefined, logLevel |-> Undefined,
   enableDebugLogs |-> FALSE, isolationLevel |-> Undefined]

\* logQueries, logLevel and #emitQueryEvent as the constructor sets them
Settings(cfg) ==
  [logQueries |-> IF cfg.logQueries = Undefined THEN "false" ELSE cfg.logQueries,
   logLevel |-> IF cfg.enableDebugLogs THEN "debug"
                ELSE IF cfg.logLevel = Undefined THEN "error" ELSE cfg.logLevel,
   emitQueryEvent |-> cfg.logQueries = "true"]
NoSettings == [logQueries |-> Undefined, logLevel |-> Undefined, emitQueryEvent |-> FALSE]

\* the errors the constructor throws
FeatureMissingError ==
  MkError("PrismaClientInitializationError", "P2038",
          "EngineType client requires the driverAdapters preview feature to be enabled.")
AdapterMissingError ==
  MkError("PrismaClientInitializationError", "P2038", "Missing configured driver adapter.")
BuildTypeError == MkError("Error", "", "Invalid TARGET_BUILD_TYPE")

\* config.previewFeatures?.includes('driverAdapters')
includesDriverAdapters(previewFeatures) == "driverAdapters" \in previewFeatures

\* a shutdown: who runs it ("stop" or "disconnect"), its position, the calls of
\* cancelAllTransactions that settled, the calls of dispose on the primary and on the
\* replica adapter, and the failure it carries
Shutdown(by, at, cancels, primary, replica, e) ==
  [by |-> by, pc |-> at, cancels |-> cancels, primary |-> primary, replica |-> replica,
   error |-> e]
NoShutdown == Shutdown("", "", 0, 0, 0, NoError)

\* a call of transaction(): the action, the isolationLevel option, whether the
\* Transaction Manager was called and with which level, and what the call threw
TxCall(op, level, called, native, e) ==
  [op |-> op, level |-> level, called |-> called, native |-> native, error |-> e]
NoCall == TxCall("", Undefined, FALSE, Undefined, NoError)

\* everything but the engine's construction
InitRest(n, s, r) ==
  /\ pc = "idle"
  /\ queries = <<>>
  /\ transaction = [kind |-> "none", id |-> NoTx]
  /\ batchResponse = NoResponse
  /\ txInfo = NoTx
  /\ queryable = NoTx
  /\ slots = <<>>
  /\ rows = <<>>
  /\ executed = 0
  /\ results = <<>>
  /\ error = NoError
  /\ log = <<>>
  /\ txStatus = [t \in TxIds |-> "NONE"]
  /\ callerTx = {}
  /\ raw = NoError
  /\ returned = NoError
  /\ via = ""
  /\ maxTransactions = n
  /\ snapshotSupported = s
  /\ txLevel = [t \in TxIds |-> NoLevel]
  /\ acquired = [t \in TxIds |-> 0]
  /\ released = [t \in TxIds |-> 0]
  /\ waiting = <<>>
  /\ txCall = NoCall
  /\ hasReplica = r
  /\ run = NoRun
  /\ shutdown = NoShutdown
  /\ set_message = 0
  /\ frames = <<>>
  /\ call = NoCallEnded
  /\ joined = NoJoin

\* the engine after construction, for a limit of n RUNNING transactions, a provider
\* with (s) or without snapshot isolation, with (r) or without a read replica, and
\* with the query compiler in state c
InitConfig(n, s, r, c) ==
  /\ InitRest(n, s, r)
  /\ options = DefaultOptions
  /\ settings = Settings(DefaultOptions)
  /\ engine = Engine("constructed", NoError, 1, "connected", 1, c)

Init == \E n \in TransactionLimits : InitConfig(n, TRUE, FALSE, "ready")

\* ------------------------------------------------- Join
\* rows with a join key; two rows of a rowset may be equal
JoinKeys == {1, 2}
ParentRows == [id : {"p", "q"}, k : JoinKeys]
ChildRows == [id : {"c", "d"}, k : JoinKeys]
Cardinalities == {"many", "one"}

\* what a parent is attached: a list of child rows, one child row, or null
Attached(kind, attachedRows) == [kind |-> kind, rows |-> attachedRows]

matching(parent, children) == SelectSeq(children, LAMBDA child : child.k = parent.k)

\* the declared cardinality holds of the rowsets
declared(parents, children, cardinality) ==
  cardinality = "one" => \A i \in DOMAIN parents : Len(matching(parents[i], children)) <= 1

attach(parent, children, cardinality) ==
  IF cardinality = "many" THEN Attached("list", matching(parent, children))
  ELSE IF matching(parent, children) = <<>> THEN Attached("null", <<>>)
  ELSE Attached("row", <<matching(parent, children)[1]>>)

\* mutant: an inner join, parents without a matching child are dropped
joinInner(parents, children, cardinality) ==
  LET kept == SelectSeq(parents, LAMBDA parent : matching(parent, children) # <<>>)
  IN  [i \in 1..Len(kept) |->
         [parent |-> kept[i], attached |-> attach(kept[i], children, cardinality)]]

\* the in-memory equi-join of the interpreter
join(parents, children, cardinality) ==
  [i \in 1..Len(parents) |->
     [parent |-> parents[i], attached |-> attach(parents[i], children, cardinality)]]

\* a Join node is evaluated
Join(parents, children, cardinality) ==
  /\ declared(parents, children, cardinality)
  /\ joined' = Joined(parents, children, cardinality, join(parents, children, cardinality))
  /\ UNCHANGED <<engineVars, classifierVars, executorVars, lifecycleVars, panicVars>>

\* ------------------------------------------------- #withLocalPanicHandler
\* the messages a panic of the WASM module reports
PanicMessages == PanicTitles
\* a call that has not ended: previousHandler and the local `panic`
Frame(previousHandler, panic) == [previousHandler |-> previousHandler, panic |-> panic]
RustPanicError(panic) ==
  MkError("PrismaClientRustPanicError", "", getErrorMessageWithLink(panic))
\* what fn threw
FnError == MkError("Error", "", "fn failed")

\* the state a call of #withLocalPanicHandler leaves alone
unwound == <<engineVars, classifierVars, executorVars, lifecycleVars, joinVars>>

\* the call up to fn(): previousHandler is read and the local handler installed
WithLocalPanicHandler ==
  /\ Len(frames) < MaxDepth
  /\ frames' = Append(frames, Frame(set_message, Undefined))
  /\ set_message' = Len(frames) + 1
  /\ UNCHANGED <<call, unwound>>

\* the WASM module panics inside fn and calls the installed set_message
SetMessage(message) ==
  /\ set_message \in DOMAIN frames
  /\ frames' = [frames EXCEPT ![set_message].panic = message]
  /\ UNCHANGED <<set_message, call, unwound>>

\* mutant: the handler is restored only when fn returned
FnEndsRestoresOnReturn(how) ==
  /\ frames # <<>>
  /\ how \in {"return", "throw"}
  /\ set_message' = IF how = "return" THEN frames[Len(frames)].previousHandler ELSE set_message
  /\ frames' = SubSeq(frames, 1, Len(frames) - 1)
  /\ call' =
       IF frames[Len(frames)].panic # Undefined
         THEN CallEnded(Len(frames), "throw", RustPanicError(frames[Len(frames)].panic))
       ELSE CallEnded(Len(frames), how, IF how = "throw" THEN FnError ELSE NoError)
  /\ UNCHANGED unwound

\* fn returned or threw: the finally block restores previousHandler and throws
\* when `panic` was set
FnEnds(how) ==
  /\ frames # <<>>
  /\ how \in {"return", "throw"}
  /\ set_message' = frames[Len(frames)].previousHandler
  /\ frames' = SubSeq(frames, 1, Len(frames) - 1)
  /\ call' =
       IF frames[Len(frames)].panic # Undefined
         THEN CallEnded(Len(frames), "throw", RustPanicError(frames[Len(frames)].panic))
       ELSE CallEnded(Len(frames), how, IF how = "throw" THEN FnError ELSE NoError)
  /\ UNCHANGED unwound

\* ------------------------------------------------- ClientEngine.constructor
\* the state the constructor and the promises it creates leave alone
built == <<engineVars, classifierVars, executorVars, shutdown, panicVars, joinVars>>

\* mutant: adapter.connect() is called before the configuration is tested
ConstructConnectsFirst(cfg) ==
  /\ engine = NewEngine
  /\ options' = cfg
  /\ IF ~includesDriverAdapters(cfg.previewFeatures)
       THEN /\ engine' = Engine("failed", FeatureMissingError, 1, "pending", 0, "none")
            /\ UNCHANGED settings
     ELSE IF cfg.adapter = Undefined
       THEN /\ engine' = Engine("failed", AdapterMissingError, 1, "pending", 0, "none")
            /\ UNCHANGED settings
     ELSE IF cfg.TARGET_BUILD_TYPE \notin {"client", "wasm-compiler-edge"}
       THEN /\ engine' = Engine("failed", BuildTypeError, 1, "pending", 0, "none")
            /\ UNCHANGED settings
     ELSE /\ engine' = Engine("constructed", NoError, 1, "pending", 0, "pending")
          /\ settings' = Settings(cfg)
  /\ UNCHANGED built

\* new ClientEngine(cfg): the whole constructor, which only creates promises
Construct(cfg) ==
  /\ engine = NewEngine
  /\ options' = cfg
  /\ IF ~includesDriverAdapters(cfg.previewFeatures)
       THEN /\ engine' = Engine("failed", FeatureMissingError, 0, "none", 0, "none")
            /\ UNCHANGED settings
     ELSE IF cfg.adapter = Undefined
       THEN /\ engine' = Engine("failed", AdapterMissingError, 0, "none", 0, "none")
            /\ UNCHANGED settings
     ELSE IF cfg.TARGET_BUILD_TYPE \notin {"client", "wasm-compiler-edge"}
       THEN /\ engine' = Engine("failed", BuildTypeError, 1, "pending", 0, "none")
            /\ UNCHANGED settings
     ELSE /\ engine' = Engine("constructed", NoError, 1, "pending", 0, "pending")
          /\ settings' = Settings(cfg)
  /\ UNCHANGED built

\* adapterPromise settled; when it resolved, the callback of
\* transactionManagerPromise creates the Transaction Manager unless
\* #convertIsolationLevel throws
AdapterSettled(ok) ==
  /\ engine.adapter = "pending"
  /\ engine' =
       [engine EXCEPT !.adapter = IF ok THEN "connected" ELSE "failed",
                      !.managers = IF /\ ok
                                      /\ engine.state = "constructed"
                                      /\ ~convertIsolationLevelThrows(options.isolationLevel)
                                     THEN 1 ELSE 0]
  /\ UNCHANGED <<options, settings, built>>

\* instantiateQueryCompiler() went past `await this.adapterPromise` and settled
CompilerSettled(ok) ==
  /\ engine.compiler = "pending"
  /\ engine.adapter \in {"connected", "failed"}
  /\ engine' =
       [engine EXCEPT !.compiler = IF engine.adapter = "connected" /\ ok
                                    THEN "ready" ELSE "failed"]
  /\ UNCHANGED <<options, settings, built>>

\* ------------------------------------------------- ClientEngine.transaction
\* Transaction Manager: a transaction can start at once
CanStart(status) == hasFreeTx(status) /\ RunningCount(status) < maxTransactions
\* Transaction Manager: the provider has the level
Supported(native) == native = "SNAPSHOT" => snapshotSupported

batchVars == <<pc, queries, transaction, batchResponse, txInfo, queryable, slots, rows, executed,
               results, error, log>>
config == <<maxTransactions, snapshotSupported>>

\* Transaction Manager: a transaction is registered as RUNNING under id, on a
\* connection acquired for it
Register(id, native) ==
  /\ txStatus' = [txStatus EXCEPT ![id] = "RUNNING"]
  /\ txLevel' = [txLevel EXCEPT ![id] = native]
  /\ acquired' = [acquired EXCEPT ![id] = @ + 1]

\* Transaction Manager: the transaction ends with status st and its connection is released
Close(id, st) ==
  /\ txStatus' = [txStatus EXCEPT ![id] = st]
  /\ released' = [released EXCEPT ![id] = @ + 1]

\* transaction('start') with a level #convertIsolationLevel throws for
TransactionStartInvalid(level) ==
  /\ convertIsolationLevelThrows(level)
  /\ txCall' = TxCall("start", level, FALSE, Undefined,
                      transformRequestError(InvalidIsolationLevelError(level)))
  /\ UNCHANGED <<batchVars, txStatus, callerTx, config, txLevel, acquired, released, waiting>>
  /\ UNCHANGED outside

\* mutant: the level is checked after the connection was acquired and the transaction
\* registered
TransactionStartUnsupportedLate(level) ==
  /\ ~convertIsolationLevelThrows(level)
  /\ ~Supported(convertIsolationLevel(level))
  /\ hasFreeTx(txStatus)
  /\ Register(freshTx(txStatus), convertIsolationLevel(level))
  /\ txCall' = TxCall("start", level, TRUE, convertIsolationLevel(level),
                      transformRequestError(UnsupportedOperationError))
  /\ UNCHANGED <<batchVars, callerTx, config, released, waiting>>
  /\ UNCHANGED outside

\* transaction('start') with a level the provider does not have
TransactionStartUnsupported(level) ==
  /\ ~convertIsolationLevelThrows(level)
  /\ ~Supported(convertIsolationLevel(level))
  /\ txCall' = TxCall("start", level, TRUE, convertIsolationLevel(level),
                      transformRequestError(UnsupportedOperationError))
  /\ UNCHANGED <<batchVars, txStatus, callerTx, config, txLevel, acquired, released, waiting>>
  /\ UNCHANGED outside

\* transaction('start') that finds a free slot: the caller's own interactive transaction
TransactionStart(level) ==
  /\ ~convertIsolationLevelThrows(level)
  /\ Supported(convertIsolationLevel(level))
  /\ CanStart(txStatus)
  /\ Register(freshTx(txStatus), convertIsolationLevel(level))
  /\ callerTx' = callerTx \cup {freshTx(txStatus)}
  /\ txCall' = TxCall("start", level, TRUE, convertIsolationLevel(level), NoError)
  /\ UNCHANGED <<batchVars, config, released, waiting>>
  /\ UNCHANGED outside

\* transaction('start') that finds every slot taken: the call waits
TransactionStartWaits(level) ==
  /\ ~convertIsolationLevelThrows(level)
  /\ Supported(convertIsolationLevel(level))
  /\ RunningCount(txStatus) >= maxTransactions
  /\ Len(waiting) < MaxWaiting
  /\ waiting' = Append(waiting, level)
  /\ UNCHANGED <<batchVars, txStatus, callerTx, config, txLevel, acquired, released, txCall>>
  /\ UNCHANGED outside

Remove(seq, n) == [j \in 1..(Len(seq) - 1) |-> IF j < n THEN seq[j] ELSE seq[j + 1]]

\* mutant: a waiting call starts whether or not a slot is free
WaitingStartsAnyway(n) ==
  /\ n \in DOMAIN waiting
  /\ hasFreeTx(txStatus)
  /\ Register(freshTx(txStatus), convertIsolationLevel(waiting[n]))
  /\ callerTx' = callerTx \cup {freshTx(txStatus)}
  /\ waiting' = Remove(waiting, n)
  /\ txCall' = TxCall("start", waiting[n], TRUE, convertIsolationLevel(waiting[n]), NoError)
  /\ UNCHANGED <<batchVars, config, released>>
  /\ UNCHANGED outside

\* a slot is free: a waiting transaction('start') gets it and returns
WaitingStarts(n) ==
  /\ n \in DOMAIN waiting
  /\ CanStart(txStatus)
  /\ Register(freshTx(txStatus), convertIsolationLevel(waiting[n]))
  /\ callerTx' = callerTx \cup {freshTx(txStatus)}
  /\ waiting' = Remove(waiting, n)
  /\ txCall' = TxCall("start", waiting[n], TRUE, convertIsolationLevel(waiting[n]), NoError)
  /\ UNCHANGED <<batchVars, config, released>>
  /\ UNCHANGED outside

\* maxWait elapsed and no slot is free: a waiting transaction('start') throws Busy
WaitingTimesOut(n) ==
  /\ n \in DOMAIN waiting
  /\ RunningCount(txStatus) >= maxTransactions
  /\ waiting' = Remove(waiting, n)
  /\ txCall' = TxCall("start", waiting[n], TRUE, convertIsolationLevel(waiting[n]),
                      transformRequestError(TransactionBusyError))
  /\ UNCHANGED <<batchVars, txStatus, callerTx, config, txLevel, acquired, released>>
  /\ UNCHANGED outside

TransactionCommit(id) ==
  /\ id \in callerTx
  /\ txStatus[id] = "RUNNING"
  /\ Close(id, "COMMITTED")
  /\ txCall' = TxCall("commit", Undefined, TRUE, Undefined, NoError)
  /\ UNCHANGED <<batchVars, callerTx, config, txLevel, acquired, waiting>>
  /\ UNCHANGED outside

TransactionRollback(id) ==
  /\ id \in callerTx
  /\ txStatus[id] = "RUNNING"
  /\ Close(id, "ROLLED_BACK")
  /\ txCall' = TxCall("rollback", Undefined, TRUE, Undefined, NoError)
  /\ UNCHANGED <<batchVars, callerTx, config, txLevel, acquired, waiting>>
  /\ UNCHANGED outside

\* mutant: a commit or rollback of a transaction that is no longer RUNNING returns
TransactionEndAbsorbed(op, id) ==
  /\ id \in callerTx
  /\ txStatus[id] # "RUNNING"
  /\ txCall' = TxCall(op, Undefined, TRUE, Undefined, NoError)
  /\ UNCHANGED <<batchVars, txStatus, callerTx, config, txLevel, acquired, released, waiting>>
  /\ UNCHANGED outside

\* transaction('commit') or transaction('rollback') on a transaction that is no longer
\* RUNNING
TransactionEndFails(op, id) ==
  /\ id \in callerTx
  /\ txStatus[id] # "RUNNING"
  /\ txCall' = TxCall(op, Undefined, TRUE, Undefined, transformRequestError(TransactionClosedError))
  /\ UNCHANGED <<batchVars, txStatus, callerTx, config, txLevel, acquired, released, waiting>>
  /\ UNCHANGED outside

\* mutant: the watchdog marks the transaction and keeps its connection
TimeoutKeepsConnection(id) ==
  /\ txStatus[id] = "RUNNING"
  /\ txStatus' = [txStatus EXCEPT ![id] = "TIMED_OUT"]
  /\ UNCHANGED <<batchVars, callerTx, config, txLevel, acquired, released, waiting, txCall>>
  /\ UNCHANGED outside

\* the timeout watchdog of the Transaction Manager
Timeout(id) ==
  /\ txStatus[id] = "RUNNING"
  /\ Close(id, "TIMED_OUT")
  /\ UNCHANGED <<batchVars, callerTx, config, txLevel, acquired, waiting, txCall>>
  /\ UNCHANGED outside

\* ------------------------------------------------- ClientEngine.stop
\* mutant: cancelAllTransactions stops after the first transaction
cancelFirstTransaction(cancelled) ==
  /\ txStatus' = [id \in TxIds |->
                   IF id \in cancelled /\ \A other \in cancelled : id <= other
                     THEN "ROLLED_BACK" ELSE txStatus[id]]
  /\ released' = [id \in TxIds |->
                   IF id \in cancelled /\ \A other \in cancelled : id <= other
                     THEN released[id] + 1 ELSE released[id]]

\* Transaction Manager: cancelAllTransactions rolls back the RUNNING transactions of
\* `cancelled` and releases their connections
cancelAllTransactions(cancelled) ==
  /\ txStatus' = [id \in TxIds |-> IF id \in cancelled THEN "ROLLED_BACK" ELSE txStatus[id]]
  /\ released' = [id \in TxIds |-> IF id \in cancelled THEN released[id] + 1 ELSE released[id]]

Running == {id \in TxIds : txStatus[id] = "RUNNING"}

\* the state a shutdown leaves alone
ashore == <<batchVars, callerTx, config, txLevel, acquired, waiting, txCall, classifierVars,
            executorVars, constructed, panicVars, joinVars>>

\* stop() up to `await this.instantiateQueryCompilerPromise`
Stop ==
  /\ shutdown = NoShutdown
  /\ shutdown' = Shutdown("stop", "compiler", 0, 0, 0, NoError)
  /\ UNCHANGED <<ashore, txStatus, released>>

\* instantiateQueryCompilerPromise settled: a rejection ends stop()
StopCompilerSettled ==
  /\ shutdown.by = "stop" /\ shutdown.pc = "compiler"
  /\ shutdown' =
       IF engine.compiler = "failed"
         THEN [shutdown EXCEPT !.pc = "rejected", !.error = InitError]
         ELSE [shutdown EXCEPT !.pc = "cancelAll"]
  /\ UNCHANGED <<ashore, txStatus, released>>

\* cancelAllTransactions settled: a rejection ends stop()
StopCancelAll(ok, cancelled) ==
  /\ shutdown.by = "stop" /\ shutdown.pc = "cancelAll"
  /\ cancelled \subseteq Running
  /\ ok <=> cancelled = Running
  /\ cancelAllTransactions(cancelled)
  /\ shutdown' =
       IF ok THEN [shutdown EXCEPT !.pc = "dispose", !.cancels = @ + 1]
       ELSE [shutdown EXCEPT !.pc = "rejected", !.cancels = @ + 1, !.error = InfraError]
  /\ UNCHANGED ashore

\* (await this.adapterPromise).dispose() settled
StopDispose(ok) ==
  /\ shutdown.by = "stop" /\ shutdown.pc = "dispose"
  /\ shutdown' =
       IF ok THEN [shutdown EXCEPT !.pc = "done", !.primary = @ + 1]
       ELSE [shutdown EXCEPT !.pc = "rejected", !.primary = @ + 1, !.error = InfraError]
  /\ UNCHANGED <<ashore, txStatus, released>>

\* ------------------------------------------------- LocalExecutor.disconnect
\* disconnect() up to `await this.#transactionManager.cancelAllTransactions()`
Disconnect ==
  /\ shutdown = NoShutdown
  /\ shutdown' = Shutdown("disconnect", "cancelAll", 0, 0, 0, NoError)
  /\ UNCHANGED <<ashore, txStatus, released>>

\* cancelAllTransactions settled: the finally block runs either way
DisconnectCancelAll(ok, cancelled) ==
  /\ shutdown.by = "disconnect" /\ shutdown.pc = "cancelAll"
  /\ cancelled \subseteq Running
  /\ ok <=> cancelled = Running
  /\ cancelAllTransactions(cancelled)
  /\ shutdown' =
       [shutdown EXCEPT !.pc = "dispose", !.cancels = @ + 1,
                        !.error = IF ok THEN NoError ELSE InfraError]
  /\ UNCHANGED ashore

\* this.#driverAdapter.dispose() settled: a rejection leaves the finally block
DisconnectDispose(ok) ==
  /\ shutdown.by = "disconnect" /\ shutdown.pc = "dispose"
  /\ shutdown' =
       IF ~ok THEN [shutdown EXCEPT !.pc = "rejected", !.primary = @ + 1, !.error = InfraError]
       ELSE IF hasReplica THEN [shutdown EXCEPT !.pc = "disposeReplica", !.primary = @ + 1]
       ELSE [shutdown EXCEPT !.pc = IF shutdown.error = NoError THEN "done" ELSE "rejected",
                             !.primary = @ + 1]
  /\ UNCHANGED <<ashore, txStatus, released>>

\* this.#driverAdapterReplica?.dispose() settled
DisconnectDisposeReplica(ok) ==
  /\ shutdown.by = "disconnect" /\ shutdown.pc = "disposeReplica"
  /\ shutdown' =
       IF ~ok THEN [shutdown EXCEPT !.pc = "rejected", !.replica = @ + 1, !.error = InfraError]
       ELSE [shutdown EXCEPT !.pc = IF shutdown.error = NoError THEN "done" ELSE "rejected",
                             !.replica = @ + 1]
  /\ UNCHANGED <<ashore, txStatus, released>>

\* ------------------------------------------------- ClientEngine.request
\* what a call comes to: ensureStarted rejects, compile throws, interpreter.run resolves
\* or rejects
Outcomes == {"ensureStarted", "compile", "resolve", "reject"}

\* ClientEngine.request: the query `action`, in interactive transaction itx or in none
Request(action, itx, outcome, e) ==
  /\ run' =
       IF outcome = "ensureStarted"
         THEN Run("request", action, itx, Nowhere, FALSE, 0, transformRequestError(InitError))
       ELSE IF outcome = "compile"
         THEN Run("request", action, itx, Nowhere, FALSE, 0, transformCompileError(CompileError))
       ELSE IF itx # NoTx /\ ~getTransactionOk(txStatus, itx)
         THEN Run("request", action, itx, Nowhere, FALSE, 0,
                  transformRequestError(TransactionClosedError))
       ELSE Run("request", action, itx,
                IF itx # NoTx THEN TxQueryable(itx) ELSE Primary,
                itx = NoTx, 1,
                IF outcome = "resolve" THEN NoError ELSE transformRequestError(e))
  /\ UNCHANGED <<engineVars, classifierVars, hasReplica, further>>

\* ------------------------------------------------- LocalExecutor.execute
\* mutant: the replica is tried before the transaction
executeQueryableReplicaFirst(tx, operation) ==
  IF hasReplica /\ operation \in readOperations THEN Replica
  ELSE IF tx # NoTx THEN TxQueryable(tx)
  ELSE Primary

\* mutant: the replica is used for every operation
executeQueryableAnyOperation(tx, operation) ==
  IF tx # NoTx THEN TxQueryable(tx)
  ELSE IF hasReplica THEN Replica
  ELSE Primary

\* the Queryable of a call whose getTransaction, if any, returned
executeQueryable(tx, operation) ==
  IF tx # NoTx THEN TxQueryable(tx)
  ELSE IF hasReplica /\ operation \in readOperations THEN Replica
  ELSE Primary

\* LocalExecutor.execute: the plan of `operation`, in transaction tx or in none
Execute(operation, tx, outcome, e) ==
  /\ outcome \in {"resolve", "reject"}
  /\ run' =
       IF tx # NoTx /\ ~getTransactionOk(txStatus, tx)
         THEN Run("execute", operation, tx, Nowhere, FALSE, 0, TransactionClosedError)
       ELSE Run("execute", operation, tx, executeQueryable(tx, operation), tx = NoTx, 1,
                IF outcome = "resolve" THEN NoError ELSE e)
  /\ UNCHANGED <<engineVars, classifierVars, hasReplica, further>>

\* ------------------------------------------------- ClientEngine.requestBatch
\* no `transaction` option (a 'batch' option takes the same path), or the caller's itx
TransactionOptions ==
  {[kind |-> "none", id |-> NoTx]} \cup {[kind |-> "itx", id |-> t] : t \in callerTx}

NoResult == [kind |-> "none", action |-> "", isNull |-> FALSE, row |-> <<>>, err |-> NoError]

\* the call up to `await this.ensureStarted()`
\* mutant: the test for an empty list of queries is dropped
RequestBatchNoEmptyTest(qs, tr) ==
  /\ pc = "idle"
  /\ queries' = qs
  /\ transaction' = tr
  /\ pc' = "ensureStarted"
  /\ UNCHANGED <<batchResponse, txInfo, queryable, slots, rows, executed, results, error, log, txStatus, managerVars, callerTx>>
  /\ UNCHANGED outside

RequestBatch(qs, tr) ==
  /\ pc = "idle"
  /\ queries' = qs
  /\ transaction' = tr
  /\ pc' = IF Len(qs) = 0 THEN "resolved" ELSE "ensureStarted"
  /\ UNCHANGED <<batchResponse, txInfo, queryable, slots, rows, executed, results, error, log, txStatus, managerVars, callerTx>>
  /\ UNCHANGED outside

EnsureStartedFails ==
  /\ pc = "ensureStarted"
  /\ pc' = "rejected"
  /\ error' = transformRequestError(InitError)
  /\ UNCHANGED <<queries, transaction, batchResponse, txInfo, queryable, slots, rows, executed, results, log,
                 txStatus, managerVars, callerTx>>
  /\ UNCHANGED outside

CompileBatchThrows ==
  /\ pc = "ensureStarted"
  /\ pc' = "rejected"
  /\ error' = transformCompileError(CompileError)
  /\ UNCHANGED <<queries, transaction, batchResponse, txInfo, queryable, slots, rows, executed, results, log,
                 txStatus, managerVars, callerTx>>
  /\ UNCHANGED outside

\* mutant: the actions of the queries are not compared
everyUnchecked(qs, action) == TRUE

\* queries.every((q) => q.action === firstAction)
every(qs, action) == \A i \in 1..Len(qs) : qs[i] = action

\* from getTransaction to the first await of the switch, on transaction tx whose
\* registry is status
Begin(resp, tx, status) ==
  /\ txInfo' = tx
  /\ rows' = rows
  /\ IF ~getTransactionOk(status, tx)
       THEN /\ pc' = "rejected"
            /\ error' = transformRequestError(TransactionClosedError)
            /\ UNCHANGED <<queryable, slots, results, executed>>
       ELSE /\ queryable' = tx
            /\ IF resp.type = "multi"
                 THEN /\ pc' = "multi"
                      /\ slots' = [i \in 1..Len(resp.plans) |-> [st |-> "running", issued |-> 0]]
                      /\ results' = [i \in 1..Len(resp.plans) |-> NoResult]
                      /\ error' = error
                      /\ executed' = executed
                 ELSE IF ~every(queries, queries[1])
                   THEN /\ pc' = "rejected"
                        /\ error' = transformRequestError(SameActionError)
                        /\ UNCHANGED <<slots, results, executed>>
                   ELSE /\ pc' = "compacted"
                        /\ executed' = executed + 1
                        /\ UNCHANGED <<slots, results, error>>

\* mutant: the test of the 'itx' kind is dropped, a transaction is always started
CompileBatchNested(resp) ==
  /\ pc = "ensureStarted"
  /\ batchResponse' = resp
  /\ pc' = "startTransaction"
  /\ log' = Append(log, LogEvent("start", NoTx))
  /\ UNCHANGED <<txInfo, queryable, slots, rows, executed, results, error>>
  /\ UNCHANGED <<queries, transaction, txStatus, managerVars, callerTx>>
  /\ UNCHANGED outside

\* ensureStarted resolved and compileBatch returned resp
CompileBatch(resp) ==
  /\ pc = "ensureStarted"
  /\ batchResponse' = resp
  /\ IF transaction.kind = "itx"
       THEN Begin(resp, transaction.id, txStatus) /\ log' = log
       ELSE /\ pc' = "startTransaction"
            /\ log' = Append(log, LogEvent("start", NoTx))
            /\ UNCHANGED <<txInfo, queryable, slots, rows, executed, results, error>>
  /\ UNCHANGED <<queries, transaction, txStatus, managerVars, callerTx>>
  /\ UNCHANGED outside

\* this.transaction('start') fails: the error is transformed by transaction() and
\* again by the catch of requestBatch
StartTransactionFails ==
  /\ pc = "startTransaction"
  /\ RunningCount(txStatus) >= maxTransactions
  /\ pc' = "rejected"
  /\ error' = transformRequestError(transformRequestError(TransactionBusyError))
  /\ UNCHANGED <<queries, transaction, batchResponse, txInfo, queryable, slots, rows, executed, results, log,
                 txStatus, managerVars, callerTx>>
  /\ UNCHANGED outside

\* this.transaction('start') resolves with a new RUNNING transaction
StartTransaction ==
  /\ pc = "startTransaction"
  /\ CanStart(txStatus)
  /\ LET tx == freshTx(txStatus)
         status == [txStatus EXCEPT ![tx] = "RUNNING"]
     IN /\ Register(tx, convertIsolationLevel(Undefined))
        /\ Begin(batchResponse, tx, status)
  /\ UNCHANGED <<queries, transaction, batchResponse, log, callerTx>>
  /\ UNCHANGED <<config, released, waiting, txCall>>
  /\ UNCHANGED outside

\* multi mode: interpreter.run of slot i sends its next statement, which succeeds
SlotStmt(i) ==
  /\ pc = "multi"
  /\ i \in DOMAIN slots
  /\ slots[i].st = "running"
  /\ getTransactionOk(txStatus, queryable)
  /\ log' = log
  /\ IF slots[i].issued + 1 = batchResponse.plans[i]
       THEN /\ slots' = [slots EXCEPT ![i] = [st |-> "ok", issued |-> @.issued + 1]]
            /\ results' = [results EXCEPT ![i] = DataResult(queries[i], PlanRows(i))]
       ELSE /\ slots' = [slots EXCEPT ![i] = [st |-> "running", issued |-> @.issued + 1]]
            /\ results' = results
  /\ UNCHANGED <<pc, queries, transaction, batchResponse, txInfo, queryable, rows, executed, error, txStatus, managerVars,
                 callerTx>>
  /\ UNCHANGED outside

\* mutant: the rejection handler `(err) => err` is missing, Promise.all rejects
SlotFailsRejects(i, e) ==
  /\ pc = "multi"
  /\ i \in DOMAIN slots
  /\ slots[i].st = "running"
  /\ IF getTransactionOk(txStatus, queryable)
       THEN e \in SlotErrors
       ELSE e = TransactionClosedError
  /\ slots' = [slots EXCEPT ![i] = [st |-> "err", issued |-> @.issued]]
  /\ pc' = "rejected"
  /\ error' = transformRequestError(e)
  /\ UNCHANGED <<queries, transaction, batchResponse, txInfo, queryable, rows, executed, results,
                 log, txStatus, managerVars, callerTx>>
  /\ UNCHANGED outside

\* multi mode: interpreter.run of slot i rejects with e; `(err) => err` makes it the
\* value of the slot
SlotFails(i, e) ==
  /\ pc = "multi"
  /\ i \in DOMAIN slots
  /\ slots[i].st = "running"
  /\ IF getTransactionOk(txStatus, queryable)
       THEN e \in SlotErrors
       ELSE e = TransactionClosedError
  /\ log' = log
  /\ slots' = [slots EXCEPT ![i] = [st |-> "err", issued |-> @.issued]]
  /\ results' = [results EXCEPT ![i] = ErrorResult(e)]
  /\ UNCHANGED <<pc, queries, transaction, batchResponse, txInfo, queryable, rows, executed, error, txStatus, managerVars,
                 callerTx>>
  /\ UNCHANGED outside

\* mutant: the plans are not awaited
MultiSettledEarly ==
  /\ pc = "multi"
  /\ pc' = IF transaction.kind # "itx" THEN "commitTransaction" ELSE "resolved"
  /\ UNCHANGED <<queries, transaction, batchResponse, txInfo, queryable, slots, rows, executed,
                 results, error, log, txStatus, managerVars, callerTx>>
  /\ UNCHANGED outside

\* Promise.all resolved: every slot has settled
MultiSettled ==
  /\ pc = "multi"
  /\ \A i \in DOMAIN slots : slots[i].st # "running"
  /\ pc' = IF transaction.kind # "itx" THEN "commitTransaction" ELSE "resolved"
  /\ UNCHANGED <<queries, transaction, batchResponse, txInfo, queryable, slots, rows, executed, results, error,
                 log, txStatus, managerVars, callerTx>>
  /\ UNCHANGED outside

\* mutant: the failure of the shared plan is isolated per slot as in multi mode
CompactedRunThrowsIsolated(e) ==
  /\ pc = "compacted"
  /\ IF getTransactionOk(txStatus, queryable)
       THEN e \in PlanErrors
       ELSE e = TransactionClosedError
  /\ log' = log
  /\ pc' = IF transaction.kind # "itx" THEN "commitTransaction" ELSE "resolved"
  /\ results' = [i \in DOMAIN batchResponse.arguments |-> ErrorResult(e)]
  /\ UNCHANGED <<queries, transaction, batchResponse, txInfo, queryable, slots, rows, executed, error,
                 txStatus, managerVars, callerTx>>
  /\ UNCHANGED outside

\* compacted mode: interpreter.run of the shared plan rejects with e
CompactedRunThrows(e) ==
  /\ pc = "compacted"
  /\ IF getTransactionOk(txStatus, queryable)
       THEN e \in PlanErrors
       ELSE e = TransactionClosedError
  /\ log' = log
  /\ pc' = "rejected"
  /\ error' = transformRequestError(e)
  /\ UNCHANGED <<queries, transaction, batchResponse, txInfo, queryable, slots, rows, executed, results,
                 txStatus, managerVars, callerTx>>
  /\ UNCHANGED outside

\* compacted mode: interpreter.run of the shared plan resolves with the merged rowset rs
CompactedRun(rs) ==
  /\ pc = "compacted"
  /\ getTransactionOk(txStatus, queryable)
  /\ rows' = rs
  /\ executed' = executed
  /\ results' = convertCompactedRows(rs, batchResponse, queries[1])
  /\ log' = log
  /\ pc' = IF transaction.kind # "itx" THEN "commitTransaction" ELSE "resolved"
  /\ UNCHANGED <<queries, transaction, batchResponse, txInfo, queryable, slots, error, txStatus, managerVars,
                 callerTx>>
  /\ UNCHANGED outside

\* this.transaction('commit', {}, txInfo)
CommitTransaction ==
  /\ pc = "commitTransaction"
  /\ log' = Append(log, LogEvent("commit", txInfo))
  /\ IF txStatus[txInfo] = "RUNNING"
       THEN /\ Close(txInfo, "COMMITTED")
            /\ pc' = "resolved"
            /\ error' = error
       ELSE /\ UNCHANGED <<txStatus, released>>
            /\ pc' = "rejected"
            /\ error' = transformRequestError(transformRequestError(TransactionClosedError))
  /\ UNCHANGED <<queries, transaction, batchResponse, txInfo, queryable, slots, rows, executed, results,
                 callerTx>>
  /\ UNCHANGED <<config, txLevel, acquired, waiting, txCall>>
  /\ UNCHANGED outside

\* the caller's transactions and the watchdog
Environment ==
  \/ callerTx = {} /\ TransactionStart(Undefined)
  \/ \E id \in TxIds : TransactionCommit(id)
  \/ \E id \in TxIds : TransactionRollback(id)
  \/ \E id \in TxIds : Timeout(id)

\* the steps of requestBatch that do not depend on the compiled response
BatchSteps ==
  \/ EnsureStartedFails
  \/ CompileBatchThrows
  \/ StartTransactionFails
  \/ StartTransaction
  \/ \E i \in 1..MaxQueries : SlotStmt(i)
  \/ \E i \in 1..MaxQueries, e \in SlotErrors \cup {TransactionClosedError} : SlotFails(i, e)
  \/ MultiSettled
  \/ \E e \in PlanErrors \cup {TransactionClosedError} : CompactedRunThrows(e)
  \/ CommitTransaction

Next ==
  \/ Environment
  \/ pc = "idle" /\ \E qs \in SeqsUpTo(Actions, MaxQueries), tr \in TransactionOptions :
       RequestBatch(qs, tr)
  \/ pc = "ensureStarted" /\ \E resp \in ProtocolResponses(Len(queries)) : CompileBatch(resp)
  \/ pc = "compacted" /\ \E rs \in ProtocolRowSets : CompactedRun(rs)
  \/ BatchSteps

Spec == Init /\ [][Next]_vars

\* one caller issuing findUnique batches inside its interactive transaction, no other
\* transaction and no timeout: every compacted response and every merged rowset
NextCompacted ==
  \/ callerTx = {} /\ TransactionStart(Undefined)
  \/ pc = "idle" /\ \E qs \in SeqsUpTo({"findUnique"}, MaxArguments), id \in callerTx :
       RequestBatch(qs, [kind |-> "itx", id |-> id])
  \/ pc = "ensureStarted" /\ \E resp \in CompactedResponses(Len(queries)) : CompileBatch(resp)
  \/ pc = "compacted" /\ \E rs \in RowSets : CompactedRun(rs)
  \/ \E e \in PlanErrors : CompactedRunThrows(e)

SpecCompacted == InitConfig(2, TRUE, FALSE, "ready") /\ [][NextCompacted]_vars

\* ------------------------------------------------- transaction('start') on its own
\* every configuration; the caller starts transactions at every isolation level and
\* commits them
InitIsolation == \E n \in TransactionLimits, s \in BOOLEAN : InitConfig(n, s, FALSE, "ready")

NextIsolation ==
  \/ \E level \in RequestedLevels : TransactionStart(level)
  \/ \E level \in RequestedLevels : TransactionStartInvalid(level)
  \/ \E level \in RequestedLevels : TransactionStartUnsupported(level)
  \/ \E id \in TxIds : TransactionCommit(id)

SpecIsolation == InitIsolation /\ [][NextIsolation]_vars

\* ------------------------------------------------- the Transaction Manager under load
\* the caller starts, commits and rolls back as many transactions as there are ids,
\* also after their deadline; next to it one batch of one query runs in an implicit
\* transaction
OneQueryResponses ==
  {r \in ProtocolResponses(1) :
     r.type = "compacted" /\ ~r.expectNonEmpty /\ r.arguments[1].id = 1}

NextTx ==
  \/ TransactionStart(Undefined)
  \/ TransactionStartWaits(Undefined)
  \/ \E n \in 1..MaxWaiting : WaitingStarts(n)
  \/ \E n \in 1..MaxWaiting : WaitingTimesOut(n)
  \/ \E id \in TxIds : TransactionCommit(id)
  \/ \E id \in TxIds : TransactionRollback(id)
  \/ \E op \in {"commit", "rollback"}, id \in TxIds : TransactionEndFails(op, id)
  \/ \E id \in TxIds : Timeout(id)
  \/ RequestBatch(<<"findUnique">>, [kind |-> "none", id |-> NoTx])
  \/ pc = "ensureStarted" /\ \E resp \in OneQueryResponses : CompileBatch(resp)
  \/ StartTransaction
  \/ StartTransactionFails
  \/ CompactedRunThrows(InfraError)
  \/ CompactedRunThrows(TransactionClosedError)
  \/ CompactedRun(<<>>)
  \/ CommitTransaction

SpecTx == Init /\ [][NextTx]_vars

\* the watchdog fires for every transaction that stays RUNNING
SpecTxFair == SpecTx /\ \A id \in TxIds : WF_vars(Timeout(id))

\* ------------------------------------------------- the Transaction Manager and shutdown
\* callers start, commit and roll back interactive transactions, the watchdog fires,
\* requests name any id (one never handed out included), and the engine or the
\* executor is shut down at any moment
InitManager ==
  \E r \in BOOLEAN, c \in {"ready", "failed"} : InitConfig(2, TRUE, r, c)

NextManager ==
  \/ TransactionStart(Undefined)
  \/ \E id \in TxIds : TransactionCommit(id)
  \/ \E id \in TxIds : TransactionRollback(id)
  \/ \E op \in {"commit", "rollback"}, id \in TxIds : TransactionEndFails(op, id)
  \/ \E id \in TxIds : Timeout(id)
  \/ \E itx \in TxIds \cup {NoTx} :
        Request("findUnique", itx,
                IF engine.compiler = "failed" THEN "ensureStarted" ELSE "resolve", NoError)
  \/ \E tx \in TxIds \cup {NoTx} : Execute("findMany", tx, "resolve", NoError)
  \/ Stop
  \/ StopCompilerSettled
  \/ \E ok \in BOOLEAN, cancelled \in SUBSET TxIds : StopCancelAll(ok, cancelled)
  \/ \E ok \in BOOLEAN : StopDispose(ok)
  \/ Disconnect
  \/ \E ok \in BOOLEAN, cancelled \in SUBSET TxIds : DisconnectCancelAll(ok, cancelled)
  \/ \E ok \in BOOLEAN : DisconnectDispose(ok)
  \/ \E ok \in BOOLEAN : DisconnectDisposeReplica(ok)

SpecManager == InitManager /\ [][NextManager]_vars

\* ------------------------------------------------- shutdown under load
\* callers hold interactive transactions and may commit them; the engine or the
\* executor is shut down at any moment; requests, executes and one-query batches name
\* the callers' transactions before and after
NextCancel ==
  \/ TransactionStart(Undefined)
  \/ \E id \in TxIds : TransactionCommit(id)
  \/ \E itx \in callerTx : Request("findUnique", itx, "resolve", NoError)
  \/ \E tx \in callerTx : Execute("findMany", tx, "resolve", NoError)
  \/ \E id \in callerTx : RequestBatch(<<"findUnique">>, [kind |-> "itx", id |-> id])
  \/ pc = "ensureStarted" /\ \E resp \in OneQueryResponses : CompileBatch(resp)
  \/ CompactedRun(<<>>)
  \/ Stop
  \/ StopCompilerSettled
  \/ \E ok \in BOOLEAN, cancelled \in SUBSET TxIds : StopCancelAll(ok, cancelled)
  \/ \E ok \in BOOLEAN : StopDispose(ok)
  \/ Disconnect
  \/ \E ok \in BOOLEAN, cancelled \in SUBSET TxIds : DisconnectCancelAll(ok, cancelled)
  \/ \E ok \in BOOLEAN : DisconnectDispose(ok)
  \/ \E ok \in BOOLEAN : DisconnectDisposeReplica(ok)

SpecCancel == (\E r \in BOOLEAN : InitConfig(2, TRUE, r, "ready")) /\ [][NextCancel]_vars

\* ------------------------------------------------- construction on its own
\* the constructor is called once with any configuration, and then its promises settle
InitConstruct ==
  /\ InitRest(2, TRUE, FALSE)
  /\ options = NoOptions
  /\ settings = NoSettings
  /\ engine = NewEngine

NextConstruct ==
  \/ \E cfg \in EngineConfigs : Construct(cfg)
  \/ \E ok \in BOOLEAN : AdapterSettled(ok)
  \/ \E ok \in BOOLEAN : CompilerSettled(ok)

SpecConstruct == InitConstruct /\ [][NextConstruct]_vars

\* ------------------------------------------------- Join on its own
\* one Join of any pair of rowsets of up to MaxJoinRows rows, under both cardinalities
NextJoin ==
  /\ joined = NoJoin
  /\ \E parents \in SeqsUpTo(ParentRows, MaxJoinRows),
        children \in SeqsUpTo(ChildRows, MaxJoinRows), cardinality \in Cardinalities :
       Join(parents, children, cardinality)

SpecJoin == InitConfig(2, TRUE, FALSE, "ready") /\ [][NextJoin]_vars

\* ------------------------------------------------- #withLocalPanicHandler on its own
\* calls nest up to MaxDepth deep; inside fn the WASM module may panic, once or more
NextPanic ==
  \/ WithLocalPanicHandler
  \/ \E message \in PanicMessages : SetMessage(message)
  \/ \E how \in {"return", "throw"} : FnEnds(how)

SpecPanic == InitConfig(2, TRUE, FALSE, "ready") /\ [][NextPanic]_vars

\* ------------------------------------------------- request and execute on their own
\* with and without a replica; the caller has one interactive transaction, which it
\* may commit and which may time out, and sends requests in it and outside of it
InitExecute == \E r \in BOOLEAN : InitConfig(2, TRUE, r, "ready")

NextExecute ==
  \/ callerTx = {} /\ TransactionStart(Undefined)
  \/ \E id \in TxIds : TransactionCommit(id)
  \/ \E id \in TxIds : Timeout(id)
  \/ \E action \in Operations, itx \in callerTx \cup {NoTx}, outcome \in Outcomes,
        e \in SlotErrors : Request(action, itx, outcome, e)
  \/ \E operation \in Operations, tx \in callerTx \cup {NoTx}, outcome \in Outcomes,
        e \in SlotErrors : Execute(operation, tx, outcome, e)

SpecExecute == InitExecute /\ [][NextExecute]_vars

\* ------------------------------------------------- the error classifiers
\* the failures that reach a classifier: objects of every class with and without a
\* code, a message and meta, and thrown strings
ObjectClasses ==
  {"Error", "UserFacingError", "TransactionManagerError", "PrismaClientInitializationError",
   "PrismaClientRustPanicError", "PrismaClientKnownRequestError"}
RawFailures ==
  {[cls |-> c, code |-> k, message |-> m, meta |-> x] :
     c \in ObjectClasses, k \in {"", "P2002", "GenericFailure"},
     m \in {"", "PANIC: unreachable", "Connection lost"}, x \in {"", "target"}}
  \cup {MkError("string", "", t) : t \in JsonTexts \cup {"oops"}}

\* this.#transformRequestError(err)
TransformRequestError(err) ==
  /\ raw' = err
  /\ returned' = transformRequestError(err)
  /\ via' = "request"
  /\ UNCHANGED <<engineVars, executorVars, further>>

\* this.#transformRequestError applied to what it returned, as the catch of
\* requestBatch does to what transaction() threw
TransformRequestErrorAgain ==
  /\ via \in {"request", "again"}
  /\ raw' = returned
  /\ returned' = transformRequestError(returned)
  /\ via' = "again"
  /\ UNCHANGED <<engineVars, executorVars, further>>

\* this.#transformCompileError(error)
TransformCompileError(err) ==
  /\ raw' = err
  /\ returned' = transformCompileError(err)
  /\ via' = "compile"
  /\ UNCHANGED <<engineVars, executorVars, further>>

NextClassify ==
  \/ \E err \in RawFailures : TransformRequestError(err)
  \/ \E err \in RawFailures : TransformCompileError(err)
  \/ TransformRequestErrorAgain

SpecClassify == Init /\ [][NextClassify]_vars

TypeOK ==
  /\ pc \in {"idle", "ensureStarted", "startTransaction", "multi", "compacted",
             "commitTransaction", "resolved", "rejected"}
  /\ txStatus \in [TxIds -> TxStatuses]
  /\ callerTx \subseteq TxIds
  /\ txInfo \in TxIds \cup {NoTx}

\* ------------------------------------------------- compacted mode: the result list
\* the result list of a compacted batch has been built
Produced == batchResponse.type = "compacted" /\ pc \in {"commitTransaction", "resolved"}

\* the slot holds a row (a success that is not null)
IsFound(r) == r.kind = "data" /\ ~r.isNull

\* the row carries, in every `keys` column, the value the argument set has there
RowMatches(row, args) ==
  \A n \in 1..Len(batchResponse.keys) :
    LET k == batchResponse.keys[n] IN k \in DOMAIN row /\ row[k] = args[k]

HasMatch(args) == \E j \in 1..Len(rows) : RowMatches(rows[j], args)

\* C1: the result list of a compacted batch has one entry per element of `arguments`,
\* in the order of `arguments`: entry i holds a row exactly when some merged row matches
\* arguments[i], and the key columns it shows are those of arguments[i], whatever the
\* order or number of the merged rows.
C1_OneResultPerArgumentInOrder ==
  Produced =>
    /\ DOMAIN results = DOMAIN batchResponse.arguments
    /\ \A i \in DOMAIN results :
         /\ IsFound(results[i]) <=> HasMatch(batchResponse.arguments[i])
         /\ IsFound(results[i]) =>
              \A k \in Range(batchResponse.keys) \cap DOMAIN results[i].row :
                results[i].row[k] = batchResponse.arguments[i][k]

\* three arguments answered from two merged rows that arrive in the opposite order
C1_Witness ==
  /\ pc = "resolved"
  /\ batchResponse.type = "compacted"
  /\ Len(batchResponse.arguments) = 3
  /\ Len(rows) = 2
  /\ batchResponse.keys = <<"id">>
  /\ "id" \in batchResponse.nestedSelection
  /\ batchResponse.arguments[1].id = 2
  /\ batchResponse.arguments[2].id = 3
  /\ batchResponse.arguments[3].id = 1
  /\ "id" \in DOMAIN rows[1] /\ rows[1].id = 1
  /\ rows[2].id = 2
  /\ IsFound(results[1]) /\ results[1].row.id = 2
  /\ ~IsFound(results[2])
  /\ IsFound(results[3]) /\ results[3].row.id = 1

\* C2: a slot whose argument set no merged row matches holds the P2025
\* record-not-found error as a value when expectNonEmpty is set, and a null success
\* otherwise; the batch is not rejected for it and the matched siblings hold their rows.
C2_NoMatchSlot ==
  (batchResponse.type = "compacted" /\ results # <<>>) =>
    /\ pc # "rejected"
    /\ error = NoError
    /\ \A i \in DOMAIN batchResponse.arguments :
         IF HasMatch(batchResponse.arguments[i])
           THEN IsFound(results[i])
           ELSE IF batchResponse.expectNonEmpty
             THEN /\ results[i].kind = "error"
                  /\ results[i].err.cls = "PrismaClientKnownRequestError"
                  /\ results[i].err.code = "P2025"
             ELSE results[i] = NullResult(queries[1])

\* arguments ids 1, 2, 3, merged rows for ids 1 and 3, expectNonEmpty = false:
\* row 1, null, row 3
C2_Witness ==
  /\ pc = "resolved"
  /\ batchResponse.type = "compacted"
  /\ batchResponse.keys = <<"id">>
  /\ ~batchResponse.expectNonEmpty
  /\ batchResponse.nestedSelection = Columns
  /\ batchResponse.arguments = <<[id |-> 1], [id |-> 2], [id |-> 3]>>
  /\ rows = <<[id |-> 1, name |-> 1], [id |-> 3, name |-> 2]>>
  /\ results = <<DataResult("findUnique", [id |-> 1, name |-> 1]),
                 NullResult("findUnique"),
                 DataResult("findUnique", [id |-> 3, name |-> 2])>>

\* C3: the row a slot holds is taken from one merged row that matches the slot's
\* argument set on every key column; no slot shows values of a row that does not match
\* its argument, also when several merged rows carry the same key values.
C3_RowMatchesItsSlot ==
  Produced =>
    \A i \in DOMAIN results :
      IsFound(results[i]) =>
        \E j \in 1..Len(rows) :
          /\ RowMatches(rows[j], batchResponse.arguments[i])
          /\ \A k \in DOMAIN results[i].row : results[i].row[k] = rows[j][k]

\* two merged rows with the same key and different payloads, and a second argument
\* that matches another row
C3_Witness ==
  /\ Produced
  /\ batchResponse.keys = <<"id">>
  /\ batchResponse.nestedSelection = Columns
  /\ Len(rows) >= 2
  /\ Len(batchResponse.arguments) >= 2
  /\ DOMAIN rows[1] = Columns
  /\ rows[1].id = rows[2].id /\ rows[1].name # rows[2].name
  /\ batchResponse.arguments[1].id = rows[1].id
  /\ batchResponse.arguments[2].id # rows[1].id
  /\ IsFound(results[1]) /\ results[1].row = rows[1]
  /\ ~IsFound(results[2])

\* C4: the row a slot holds has exactly the columns of the matched merged row that
\* nestedSelection names, each with the value it has in that row; a key column that is
\* not selected does not appear.
C4_OnlySelectedColumns ==
  Produced =>
    \A i \in DOMAIN results :
      IsFound(results[i]) =>
        /\ DOMAIN results[i].row \subseteq batchResponse.nestedSelection
        /\ \E j \in 1..Len(rows) :
             /\ DOMAIN results[i].row = DOMAIN rows[j] \cap batchResponse.nestedSelection
             /\ \A k \in DOMAIN results[i].row : results[i].row[k] = rows[j][k]

\* correlation on `id`, selection of `name` only: the slot shows name and not id
C4_Witness ==
  /\ Produced
  /\ batchResponse.keys = <<"id">>
  /\ batchResponse.nestedSelection = {"name"}
  /\ Len(rows) >= 1
  /\ DOMAIN rows[1] = Columns
  /\ batchResponse.arguments[1].id = rows[1].id
  /\ IsFound(results[1])
  /\ DOMAIN results[1].row = {"name"}
  /\ results[1].row.name = rows[1].name

\* ------------------------------------------------- the implicit transaction
\* requestBatch is not scoped to a caller-supplied interactive transaction
Implicit == pc # "idle" /\ transaction.kind # "itx"

AllSettled == \A i \in DOMAIN slots : slots[i].st # "running"

\* C5: once a batch that opened an implicit transaction has been rejected, that
\* transaction is no longer RUNNING (it was rolled back).
C5_FailedBatchRolledBack ==
  (Implicit /\ pc = "rejected" /\ txInfo # NoTx) => txStatus[txInfo] # "RUNNING"

\* C6: a batch outside an interactive transaction calls this.transaction('start') once
\* and before any plan runs, runs the plans on the Queryable of the transaction that
\* call returned, calls this.transaction('commit') once, for that transaction and only
\* when every plan execution has settled, and resolves only after the commit.
C6_ImplicitTransactionAroundPlans ==
  Implicit =>
    /\ pc \in {"multi", "compacted", "commitTransaction"} =>
         /\ log = <<LogEvent("start", NoTx)>>
         /\ txInfo \in TxIds \ callerTx
         /\ queryable = txInfo
    /\ pc = "commitTransaction" => AllSettled
    /\ (pc = "resolved" /\ Len(queries) > 0) =>
         /\ log = <<LogEvent("start", NoTx), LogEvent("commit", txInfo)>>
         /\ txInfo \in TxIds \ callerTx
         /\ queryable = txInfo
         /\ txStatus[txInfo] = "COMMITTED"
         /\ AllSettled
         /\ DOMAIN results = DOMAIN queries

\* a multi batch of two plans resolved after the commit of its implicit transaction
C6_Witness ==
  /\ Implicit
  /\ pc = "resolved"
  /\ batchResponse.type = "multi"
  /\ Len(queries) = 2
  /\ \A i \in DOMAIN slots : slots[i].st = "ok" /\ slots[i].issued = 2
  /\ txStatus[txInfo] = "COMMITTED"

\* ------------------------------------------------- multi mode
Multi == batchResponse.type = "multi" /\ pc \in {"multi", "commitTransaction", "resolved", "rejected"}

\* C7: when the plan of a slot fails with a business error, the result list still has
\* one entry per plan in input order, the failed slot holds the error as a value, every
\* other slot holds the result of its own plan, the failure does not reject the batch
\* (only a commit on a transaction that is no longer RUNNING does) and a batch that
\* resolves has committed its implicit transaction.
C7_SlotFailureIsolated ==
  (Multi /\ queryable # NoTx /\ \E i \in DOMAIN slots : slots[i].st = "err") =>
    /\ DOMAIN results = DOMAIN batchResponse.plans
    /\ \A j \in DOMAIN slots :
         /\ slots[j].st = "ok" => results[j] = DataResult(queries[j], PlanRows(j))
         /\ slots[j].st = "err" =>
              /\ results[j].kind = "error"
              /\ results[j].err \in SlotErrors \cup {TransactionClosedError}
         /\ slots[j].st = "running" => results[j] = NoResult
    /\ pc = "rejected" =>
         /\ Implicit
         /\ AllSettled
         /\ log = <<LogEvent("start", NoTx), LogEvent("commit", txInfo)>>
         /\ txStatus[txInfo] = "TIMED_OUT"
         /\ error = transformRequestError(TransactionClosedError)
    /\ (pc = "resolved" /\ Implicit) =>
         /\ txStatus[txInfo] = "COMMITTED"
         /\ log = <<LogEvent("start", NoTx), LogEvent("commit", txInfo)>>

\* slot 1 failed with a business error, slot 2 returned its rows, the batch resolved
\* and the implicit transaction is committed
C7_Witness ==
  /\ Implicit
  /\ pc = "resolved"
  /\ batchResponse.type = "multi"
  /\ Len(queries) = 2
  /\ slots[1].st = "err" /\ results[1] = ErrorResult(BusinessError)
  /\ slots[2].st = "ok" /\ results[2] = DataResult(queries[2], PlanRows(2))
  /\ txStatus[txInfo] = "COMMITTED"

\* C8: a multi batch in which a slot failed with an infrastructure failure does not
\* resolve with a result list: it rejects, and its implicit transaction is neither
\* committed nor left RUNNING.
C8_InfraFailureAbortsBatch ==
  (Multi /\ pc \in {"resolved", "rejected"}
     /\ \E i \in DOMAIN slots : slots[i].st = "err" /\ results[i] = ErrorResult(InfraError)) =>
    /\ pc = "rejected"
    /\ Implicit => txStatus[txInfo] \notin {"RUNNING", "COMMITTED"}

\* C9: in multi mode no statement of a later plan reaches the connection while an
\* earlier plan is still executing.
C9_PlansRunOneAfterAnother ==
  pc = "multi" =>
    \A i \in DOMAIN slots, j \in DOMAIN slots :
      (i < j /\ slots[j].issued > 0) => slots[i].st # "running"

\* ------------------------------------------------- compacted mode: failure
Compacted == batchResponse.type = "compacted" /\ pc # "ensureStarted"
Committing == \E n \in DOMAIN log : log[n].op = "commit"

\* C11: a compacted batch calls interpreter.run on the shared plan once, and only once
\* the queries were found to share their action; a batch that goes on to its commit or
\* resolves holds the results rebuilt from the rowset of that one run; a batch whose run
\* failed is rejected with the failure and holds no result for any slot.
C11_CompactedRunOnceOrAbort ==
  Compacted =>
    /\ executed <= 1
    /\ pc = "compacted" => executed = 1 /\ results = <<>>
    /\ pc \in {"commitTransaction", "resolved"} =>
         /\ executed = 1
         /\ results = convertCompactedRows(rows, batchResponse, queries[1])
    /\ (pc = "rejected" /\ ~Committing) =>
         /\ results = <<>>
         /\ rows = <<>>
         /\ error # NoError
         /\ executed = 1 =>
              error \in {transformRequestError(e) : e \in PlanErrors \cup {TransactionClosedError}}

\* the shared plan of a batch of two queries ran once and failed with a plain Error:
\* the batch is rejected with it and no slot holds a result
C11_Witness ==
  /\ Compacted
  /\ pc = "rejected"
  /\ Len(queries) = 2
  /\ executed = 1
  /\ error = transformRequestError(InfraError)
  /\ results = <<>>

\* ------------------------------------------------- the error classifiers
\* the fatal-crash marker
CrashMarked(e) == e.cls # "string" /\ e.code = "GenericFailure" /\ startsWithPANIC(e.message)

\* the kinds of the error taxonomy
TaxonomyClasses ==
  {"PrismaClientInitializationError", "PrismaClientRustPanicError",
   "PrismaClientKnownRequestError", "PrismaClientUnknownRequestError",
   "TransactionManagerError", "UnsupportedOperationError"}

\* C12: the request-error classifier returns a PrismaClientInitializationError
\* unchanged; else it turns a failure with code 'GenericFailure' and a message starting
\* with 'PANIC:' into a PrismaClientRustPanicError, also when the failure is a
\* UserFacingError; else it turns a UserFacingError into a PrismaClientKnownRequestError
\* with the same message, code and meta.  The compile-error classifier returns a
\* PrismaClientRustPanicError unchanged and turns a failure with a message and a code
\* into a PrismaClientKnownRequestError with the same message, code and meta.
C12_ClassifiedByShape ==
  /\ via = "request" =>
       IF raw.cls = "PrismaClientInitializationError" THEN returned = raw
       ELSE IF CrashMarked(raw)
         THEN returned.cls = "PrismaClientRustPanicError"
       ELSE raw.cls = "UserFacingError" =>
              /\ returned.cls = "PrismaClientKnownRequestError"
              /\ returned.message = raw.message
              /\ returned.code = raw.code
              /\ returned.meta = raw.meta
  /\ via = "compile" =>
       IF raw.cls = "PrismaClientRustPanicError" THEN returned = raw
       ELSE (raw.cls # "string" /\ raw.code # "" /\ raw.message # "") =>
              /\ returned.cls = "PrismaClientKnownRequestError"
              /\ returned.message = raw.message
              /\ returned.code = raw.code
              /\ returned.meta = raw.meta

\* a UserFacingError that carries the crash marker came back as a
\* PrismaClientRustPanicError
C12_Witness ==
  /\ via = "request"
  /\ raw.cls = "UserFacingError"
  /\ raw.meta = "target"
  /\ CrashMarked(raw)
  /\ returned.cls = "PrismaClientRustPanicError"

\* C13: a failure that is outside the taxonomy, is not a UserFacingError and carries no
\* crash marker comes back from the request-error classifier as a
\* PrismaClientUnknownRequestError, and no classifier hands back a failure outside the
\* taxonomy.
C13_EverythingElseIsUnknown ==
  /\ (via = "request" /\ raw.cls \notin TaxonomyClasses \cup {"UserFacingError"}
        /\ ~CrashMarked(raw)) =>
       returned.cls = "PrismaClientUnknownRequestError"
  /\ via # "" => returned.cls \in TaxonomyClasses

\* a failure the request-error classifier has been applied to
Normalized(e) == e = transformRequestError(e)

\* C14: the failure a rejected requestBatch throws, and every failure a resolved
\* requestBatch returns as the value of a slot, has been through the request-error
\* classifier.
C14_EveryFailureNormalized ==
  /\ pc = "rejected" => Normalized(error)
  /\ pc = "resolved" =>
       \A i \in DOMAIN results : results[i].kind = "error" => Normalized(results[i].err)

\* ------------------------------------------------- where a request runs
\* C17: a request or execute call that carries a transaction hands interpreter.run the
\* Queryable getTransaction returned for that id, and an interpreter without the
\* transaction manager; when getTransaction throws, interpreter.run is not called and
\* the call fails with TransactionClosed; a call that carries no transaction hands
\* interpreter.run the primary adapter (execute: or the replica) and an interpreter with
\* the transaction manager.
C17_TransactionRequestsRunOnTheTransaction ==
  /\ [](run.by # "" =>
          /\ run.runs = 0 <=> run.queryable = Nowhere
          /\ run.runs = 0 =>
               run.error \in {transformRequestError(InitError), transformCompileError(CompileError),
                              TransactionClosedError}
          /\ run.runs > 0 =>
               /\ run.runs = 1
               /\ IF run.tx # NoTx
                    THEN ~run.enabled /\ run.queryable = TxQueryable(run.tx)
                    ELSE /\ run.enabled
                         /\ run.queryable \in {Primary, Replica}
                         /\ run.by = "request" => run.queryable = Primary)
  /\ [][(run' # run /\ run'.tx # NoTx /\ txStatus[run'.tx] # "RUNNING") =>
           /\ run'.runs = 0
           /\ run'.error # NoError]_vars

\* findMany sent in a RUNNING transaction, with a replica configured, ran on the
\* Queryable of the transaction
C17_Witness ==
  /\ hasReplica
  /\ run.by = "execute"
  /\ run.operation = "findMany"
  /\ run.tx \in callerTx
  /\ run.queryable = TxQueryable(run.tx)
  /\ run.runs = 1
  /\ ~run.enabled

\* a call of LocalExecutor.execute outside a transaction
Autocommit == run.by = "execute" /\ run.tx = NoTx

\* C18: a plan executed outside a transaction runs on the replica exactly when a replica
\* is configured and the operation is one of findFirst, findFirstOrThrow, findMany,
\* findUnique, findUniqueOrThrow, groupBy, aggregate, count, findRaw, aggregateRaw; in
\* every other case it runs on the primary adapter.
C18_ReplicaOnlyForReads ==
  Autocommit =>
    /\ run.queryable = Replica <=>
         (hasReplica /\ run.operation \in
            {"findFirst", "findFirstOrThrow", "findMany", "findUnique", "findUniqueOrThrow",
             "groupBy", "aggregate", "count", "findRaw", "aggregateRaw"})
    /\ run.queryable # Replica => run.queryable = Primary

\* with a replica configured, queryRaw went to the primary adapter
C18_Witness ==
  /\ Autocommit
  /\ hasReplica
  /\ run.operation = "queryRaw"
  /\ run.queryable = Primary
  /\ run.runs = 1

\* ------------------------------------------------- isolation levels
\* the table of the native levels
NativeLevel ==
  [ReadUncommitted |-> "READ UNCOMMITTED", ReadCommitted |-> "READ COMMITTED",
   RepeatableRead |-> "REPEATABLE READ", Serializable |-> "SERIALIZABLE",
   Snapshot |-> "SNAPSHOT"]

\* the last call of transaction() was a 'start' that returned a transaction
Started == txCall.op = "start" /\ txCall.error = NoError

\* C15: transaction('start') hands the Transaction Manager the native level of the
\* table for each of the five levels, and no level when none is given; two levels never
\* share a native level; a transaction that started runs at the level handed over;
\* any other value throws a PrismaClientKnownRequestError with code P2023 and the
\* Transaction Manager is not called.
C15_IsolationLevelTable ==
  /\ \A a \in IsolationLevels, b \in IsolationLevels :
       a # b => convertIsolationLevel(a) # convertIsolationLevel(b)
  /\ txCall.op = "start" =>
       /\ txCall.level \in IsolationLevels =>
            txCall.called /\ txCall.native = NativeLevel[txCall.level]
       /\ txCall.level = Undefined => txCall.called /\ txCall.native = Undefined
       /\ txCall.level \notin IsolationLevels \cup {Undefined} =>
            /\ ~txCall.called
            /\ txCall.error.cls = "PrismaClientKnownRequestError"
            /\ txCall.error.code = "P2023"
       /\ Started => \E id \in callerTx : txLevel[id] = txCall.native
  /\ \A id \in TxIds :
       txStatus[id] # "NONE" => txLevel[id] \in SqlIsolationLevels \cup {Undefined}

\* a transaction was started with RepeatableRead and runs at REPEATABLE READ
C15_Witness ==
  /\ Started
  /\ txCall.level = "RepeatableRead"
  /\ txCall.native = "REPEATABLE READ"
  /\ \E id \in callerTx : txStatus[id] = "RUNNING" /\ txLevel[id] = "REPEATABLE READ"

\* a call of transaction('start') has just thrown UnsupportedOperation
ThrowsUnsupported ==
  txCall' # txCall /\ txCall'.op = "start" /\ txCall'.error.cls = "UnsupportedOperationError"

\* C16: on a provider without snapshot isolation, transaction('start') with Snapshot
\* throws an UnsupportedOperation error; the step that throws it acquires no connection
\* and registers no transaction, and no transaction is ever at level SNAPSHOT.
C16_UnsupportedLevelFailsFirst ==
  /\ [](~snapshotSupported =>
          /\ (txCall.op = "start" /\ txCall.level = "Snapshot") =>
               txCall.error.cls = "UnsupportedOperationError"
          /\ \A id \in TxIds : txLevel[id] # "SNAPSHOT")
  /\ [][ThrowsUnsupported => UNCHANGED <<txStatus, txLevel, acquired, callerTx>>]_vars

\* Snapshot was refused while another transaction runs and one id is still unused
C16_Witness ==
  /\ ~snapshotSupported
  /\ txCall.op = "start"
  /\ txCall.level = "Snapshot"
  /\ txCall.error.cls = "UnsupportedOperationError"
  /\ \E id \in TxIds : txStatus[id] = "RUNNING"
  /\ \E id \in TxIds : txStatus[id] = "NONE" /\ acquired[id] = 0

\* ------------------------------------------------- the limit of RUNNING transactions
\* a call of transaction('start') has just thrown Busy
ThrowsBusy ==
  txCall' # txCall /\ txCall'.op = "start"
    /\ txCall'.error = transformRequestError(TransactionBusyError)

\* C19: the number of RUNNING transactions never exceeds the configured limit; a
\* transaction only starts in a step that begins with fewer RUNNING transactions than
\* the limit; a call that finds the limit reached waits, and a waiting call only throws
\* Busy while the limit is still reached.
C19_RunningNeverExceedsLimit ==
  /\ [](RunningCount(txStatus) <= maxTransactions)
  /\ [][RunningCount(txStatus') > RunningCount(txStatus) =>
           RunningCount(txStatus) < maxTransactions]_vars
  /\ [][Len(waiting') > Len(waiting) => RunningCount(txStatus) >= maxTransactions]_vars
  /\ [][ThrowsBusy =>
           /\ RunningCount(txStatus) >= maxTransactions
           /\ Len(waiting') < Len(waiting)
           /\ UNCHANGED <<txStatus, acquired>>]_vars

\* with a limit of two, two transactions run, a third call waited and has been started
\* after one of them ended
C19_Witness ==
  /\ maxTransactions = 2
  /\ txStatus[1] # "RUNNING"
  /\ txStatus[2] = "RUNNING"
  /\ txStatus[3] = "RUNNING"
  /\ 3 \in callerTx
  /\ Started

\* ------------------------------------------------- the timeout watchdog
\* C20: a transaction that stays RUNNING is eventually closed; a TIMED_OUT transaction
\* has released its connection, exactly once, and stays TIMED_OUT with its connection
\* released once whatever is called on it afterwards; a RUNNING transaction holds its
\* connection; a commit or rollback only fails with TransactionClosed, and only on a
\* transaction that is no longer RUNNING; this holds for the implicit transaction of
\* a batch as for the caller's.
C20_TimedOutIsClosedAndReleased ==
  /\ \A id \in TxIds : (txStatus[id] = "RUNNING") ~> (txStatus[id] # "RUNNING")
  /\ [](\A id \in TxIds :
          /\ released[id] <= acquired[id]
          /\ acquired[id] <= 1
          /\ txStatus[id] = "RUNNING" => acquired[id] = 1 /\ released[id] = 0
          /\ txStatus[id] \in {"TIMED_OUT", "COMMITTED", "ROLLED_BACK"} => released[id] = 1)
  /\ [](txCall.op \in {"commit", "rollback"} =>
          txCall.error \in {NoError, transformRequestError(TransactionClosedError)})
  /\ [][\A id \in TxIds :
           txStatus[id] = "TIMED_OUT" =>
             txStatus'[id] = "TIMED_OUT" /\ released'[id] = released[id]]_vars
  /\ [][(txCall' # txCall /\ txCall'.error = transformRequestError(TransactionClosedError)) =>
           /\ \E id \in callerTx : txStatus[id] # "RUNNING"
           /\ UNCHANGED <<txStatus, released>>]_vars
  /\ [][(pc = "commitTransaction" /\ pc' = "rejected") =>
           /\ txStatus[txInfo] # "RUNNING"
           /\ UNCHANGED <<txStatus, released>>]_vars

\* the implicit transaction of a rejected batch was left RUNNING and has timed out,
\* and a commit of the caller on its own timed-out transaction failed
C20_Witness ==
  /\ pc = "rejected"
  /\ txInfo # NoTx
  /\ ~Committing
  /\ txStatus[txInfo] = "TIMED_OUT"
  /\ released[txInfo] = 1
  /\ \E id \in callerTx : txStatus[id] = "TIMED_OUT"
  /\ txCall.op = "commit"
  /\ txCall.error = transformRequestError(TransactionClosedError)

\* ------------------------------------------------- interactive transaction
BatchStep == <<pc, slots, results, rows, queryable, txInfo, log>>' # <<pc, slots, results, rows, queryable, txInfo, log>>

\* C10: a batch scoped to the caller's interactive transaction makes no call of
\* this.transaction (no start, commit or rollback), runs its plans on the Queryable of
\* the caller's transaction, and no step of the batch changes the status of any
\* transaction, whether the batch resolves or rejects.
C10_NoNestedTransaction ==
  /\ [](transaction.kind = "itx" =>
          /\ log = <<>>
          /\ txInfo \in {NoTx, transaction.id}
          /\ queryable \in {NoTx, transaction.id}
          /\ (pc \in {"multi", "compacted"} \/ (pc = "resolved" /\ Len(queries) > 0)) =>
               queryable = transaction.id
          /\ pc # "startTransaction" /\ pc # "commitTransaction")
  /\ [][(transaction.kind = "itx" /\ BatchStep) => txStatus' = txStatus]_vars

\* a batch of two plans on the caller's transaction resolved and the transaction is
\* still RUNNING
C10_Witness ==
  /\ transaction.kind = "itx"
  /\ pc = "resolved"
  /\ Len(queries) = 2
  /\ queryable = transaction.id
  /\ txStatus[transaction.id] = "RUNNING"
  /\ \E i \in DOMAIN slots : slots[i].st = "err"

\* ------------------------------------------------- the status of a transaction
Terminal == {"COMMITTED", "ROLLED_BACK", "TIMED_OUT"}

\* the run was refused with TransactionClosed and got no Queryable
RefusedClosed(r) ==
  /\ r.queryable = Nowhere
  /\ r.runs = 0
  /\ r.error \in {TransactionClosedError, transformRequestError(TransactionClosedError)}

\* C21: a transaction's status only moves from not started to RUNNING and from
\* RUNNING to one of COMMITTED, ROLLED_BACK, TIMED_OUT; a terminal status is never
\* changed again by a commit, a rollback, the watchdog or cancelAllTransactions; and a
\* request or an execute that gets as far as getTransaction with an id that is not
\* RUNNING (terminal, or never handed out) is refused with TransactionClosed and gets
\* no Queryable
C21_StatusOnlyMovesForward ==
  [][/\ \A id \in TxIds :
          /\ txStatus[id] = "NONE" => txStatus'[id] \in {"NONE", "RUNNING"}
          /\ txStatus[id] = "RUNNING" => txStatus'[id] \in {"RUNNING"} \cup Terminal
          /\ txStatus[id] \in Terminal =>
               txStatus'[id] = txStatus[id] /\ released'[id] = released[id]
     /\ (run' # run /\ run'.tx # NoTx /\ txStatus[run'.tx] # "RUNNING"
           /\ run'.error # transformRequestError(InitError)) =>
          RefusedClosed(run')]_vars

\* a committed transaction after a shutdown cancelled the others, a later commit or
\* rollback on it failed, and a request naming it was refused
C21_TerminalStays ==
  \E id \in TxIds :
    /\ txStatus[id] = "COMMITTED"
    /\ shutdown.cancels = 1
    /\ txCall.error # NoError
    /\ run.tx = id /\ RefusedClosed(run)
    /\ \E other \in TxIds : txStatus[other] = "NONE"

\* ------------------------------------------------- commit and rollback
Ended(op) == IF op = "commit" THEN "COMMITTED" ELSE "ROLLED_BACK"

\* C22: a commit or rollback that returns moved one RUNNING transaction to COMMITTED
\* or ROLLED_BACK and released its connection once, leaving the others alone; one that
\* throws (the transaction was closed before) throws TransactionClosed and changes
\* nothing; and the connection of a transaction was released once if it has ended and
\* never otherwise
C22_EndsOnceThenFails ==
  /\ [](\A id \in TxIds : released[id] = IF txStatus[id] \in Terminal THEN 1 ELSE 0)
  /\ [][(txCall' # txCall /\ txCall'.op \in {"commit", "rollback"}) =>
          IF txCall'.error = NoError
            THEN \E id \in callerTx :
                   /\ txStatus[id] = "RUNNING"
                   /\ txStatus' = [txStatus EXCEPT ![id] = Ended(txCall'.op)]
                   /\ released' = [released EXCEPT ![id] = released[id] + 1]
            ELSE /\ txCall'.error = transformRequestError(TransactionClosedError)
                 /\ txStatus' = txStatus
                 /\ released' = released]_vars

\* a rollback of a committed transaction threw, and its connection was released once
C22_SecondCallFailed ==
  \E id \in callerTx :
    /\ txStatus[id] = "COMMITTED"
    /\ released[id] = 1
    /\ txCall.op = "rollback"
    /\ txCall.error = transformRequestError(TransactionClosedError)

\* ------------------------------------------------- cancelAllTransactions
\* C23: a cancelAllTransactions that returns during shutdown has rolled back every
\* RUNNING transaction and released its connection once, has left the ended ones
\* alone, and leaves none RUNNING; afterwards a request, an execute or a batch
\* naming a rolled-back transaction is refused with TransactionClosed and runs nothing
C23_CancelAllRollsBackAll ==
  [][/\ (shutdown'.cancels = shutdown.cancels + 1 /\ shutdown'.error = NoError) =>
          /\ \A id \in TxIds :
               IF txStatus[id] = "RUNNING"
                 THEN txStatus'[id] = "ROLLED_BACK" /\ released'[id] = released[id] + 1
                 ELSE txStatus'[id] = txStatus[id] /\ released'[id] = released[id]
          /\ \A id \in TxIds : txStatus'[id] # "RUNNING"
     /\ (run' # run /\ run'.tx # NoTx /\ txStatus[run'.tx] = "ROLLED_BACK") =>
          RefusedClosed(run')
     /\ (pc = "ensureStarted" /\ pc' # pc /\ transaction.kind = "itx"
           /\ txStatus[transaction.id] = "ROLLED_BACK") =>
          /\ pc' = "rejected"
          /\ error' = transformRequestError(TransactionClosedError)
          /\ executed' = 0]_vars

\* two RUNNING transactions were rolled back by one cancelAllTransactions, and then a
\* request and a batch naming them were refused
C23_TwoRolledBack ==
  \E a, b \in callerTx :
    /\ a # b
    /\ txStatus[a] = "ROLLED_BACK" /\ txStatus[b] = "ROLLED_BACK"
    /\ released[a] = 1 /\ released[b] = 1
    /\ shutdown.cancels = 1 /\ shutdown.error = NoError
    /\ run.tx = a /\ RefusedClosed(run)
    /\ transaction.id = b /\ pc = "rejected"
    /\ error = transformRequestError(TransactionClosedError)

\* ------------------------------------------------- the constructor
\* C24: once the constructor was called with a configuration that lacks the
\* driverAdapters preview feature or the driver adapter, it has thrown a
\* PrismaClientInitializationError with code P2038, adapter.connect() was not called,
\* and there is no Transaction Manager and no query compiler, then and ever after
C24_BadConfigFailsBeforeConnect ==
  (/\ engine.state # "new"
   /\ \/ ~includesDriverAdapters(options.previewFeatures)
      \/ options.adapter = Undefined) =>
    /\ engine.state = "failed"
    /\ engine.error.cls = "PrismaClientInitializationError"
    /\ engine.error.code = "P2038"
    /\ engine.connects = 0
    /\ engine.adapter = "none"
    /\ engine.managers = 0
    /\ engine.compiler = "none"

\* the preview feature is enabled and the adapter is missing: the constructor threw
C24_AdapterMissing ==
  /\ includesDriverAdapters(options.previewFeatures)
  /\ options.adapter = Undefined
  /\ engine.state = "failed"
  /\ engine.error = AdapterMissingError
  /\ engine.connects = 0

\* ------------------------------------------------- Join
\* the times row occurs in rowset
Occurrences(rowset, row) == Cardinality({j \in DOMAIN rowset : rowset[j] = row})

\* C25: the result of a Join has one row per parent row, in parent order; each parent
\* is attached exactly the child rows whose key equals its own, as often as they
\* occur among the child rows, and no child row with another key; a parent without
\* matching child rows is attached the empty list (one-to-many) or null (one-to-one)
C25_JoinAttachesMatchingChildren ==
  joined # NoJoin =>
    /\ Len(joined.result) = Len(joined.parents)
    /\ \A i \in DOMAIN joined.parents :
         LET parent == joined.parents[i]
             attached == joined.result[i].attached
         IN  /\ joined.result[i].parent = parent
             /\ \A child \in ChildRows :
                  Occurrences(attached.rows, child) =
                    IF child.k = parent.k THEN Occurrences(joined.children, child) ELSE 0
             /\ attached.kind = IF joined.cardinality = "many" THEN "list"
                                ELSE IF attached.rows = <<>> THEN "null" ELSE "row"

\* two parents with different keys, one with two child rows and one with none
C25_OneParentUnmatched ==
  /\ Len(joined.parents) = 2
  /\ joined.parents[1].k # joined.parents[2].k
  /\ Len(joined.children) = 2
  /\ Len(joined.result[1].attached.rows) = 0
  /\ Len(joined.result[2].attached.rows) = 2

\* ------------------------------------------------- compacted mode: mixed actions
MixedActions == \E i \in DOMAIN queries : queries[i] # queries[1]

\* C26: a compacted batch whose queries do not all have the action of the first is
\* rejected with 'All queries in a batch must have the same action' as soon as it is
\* past getTransaction, and the shared plan is never run; when the batch is not in an
\* interactive transaction, its implicit transaction was started before
C26_MixedActionsRejectedUnrun ==
  /\ (batchResponse.type = "compacted" /\ MixedActions) =>
       /\ executed = 0
       /\ rows = <<>>
       /\ pc \in {"startTransaction", "rejected"}
       /\ (pc = "rejected" /\ queryable # NoTx) =>
            error = transformRequestError(SameActionError)
  /\ (pc = "rejected" /\ error = transformRequestError(SameActionError)) =>
       /\ batchResponse.type = "compacted" /\ MixedActions
       /\ Implicit =>
            /\ txInfo # NoTx /\ txStatus[txInfo] # "NONE"
            /\ \E i \in DOMAIN log : log[i].op = "start"

\* a batch of two different actions outside an interactive transaction was rejected
\* after its implicit transaction had started
C26_RejectedAfterStart ==
  /\ Implicit
  /\ pc = "rejected"
  /\ error = transformRequestError(SameActionError)
  /\ Len(queries) = 2 /\ queries[1] # queries[2]
  /\ txInfo # NoTx /\ txStatus[txInfo] = "RUNNING"
  /\ executed = 0

\* ------------------------------------------------- shutdown
\* the shutdown has ended, by returning or by throwing
ShutdownEnded == shutdown.pc \in {"done", "rejected"}

\* C27: a shutdown that has ended has called dispose on the primary adapter, and on
\* the replica when one is configured and LocalExecutor.disconnect ran, and no
\* dispose is called before cancelAllTransactions has settled
C27_ShutdownAlwaysDisposes ==
  /\ ShutdownEnded =>
       /\ shutdown.primary = 1
       /\ (shutdown.by = "disconnect" /\ hasReplica) => shutdown.replica = 1
  /\ (shutdown.primary > 0 \/ shutdown.replica > 0) => shutdown.cancels = 1

\* ------------------------------------------------- the panic handler
\* C28: the handler installed in the registry is always the local handler of the
\* innermost call that has not ended, or the fallback handler when there is none; a
\* call that ends, by fn returning or throwing, leaves the handler that was installed
\* when it began; and a call during which a panic message was recorded ends by
\* throwing a PrismaClientRustPanicError, whatever fn did
C28_PanicHandlerRestored ==
  /\ [](set_message = Len(frames))
  /\ [][Len(frames') < Len(frames) =>
          /\ set_message' = Len(frames) - 1
          /\ set_message' = frames[Len(frames)].previousHandler
          /\ frames[Len(frames)].panic # Undefined =>
               /\ call'.how = "throw"
               /\ call'.error.cls = "PrismaClientRustPanicError"]_vars

\* a nested call recorded a panic and threw, the outer call is still running under
\* its own handler
C28_NestedPanicThrown ==
  /\ Len(frames) = 1
  /\ set_message = 1
  /\ call.depth = 2
  /\ call.how = "throw"
  /\ call.error.cls = "PrismaClientRustPanicError"

\* ------------------------------------------------- the classifier applied twice
\* C29: #transformRequestError applied to an error it returned (a known, unknown,
\* panic or initialization error, or one it passed through) returns that error, with
\* the same class, code, message and meta
C29_TransformRequestErrorIdempotent ==
  /\ via = "again" => returned = raw
  /\ via = "request" => transformRequestError(returned) = returned

\* a panic error, with the report text in its message, went through the classifier a
\* second time
C29_PanicErrorTwice ==
  /\ via = "again"
  /\ raw.cls = "PrismaClientRustPanicError"
  /\ raw.message = getErrorMessageWithLink("PANIC: unreachable")
  /\ returned = raw

\* ------------------------------------------------- the empty batch
\* C30: requestBatch of no queries resolves at once with the empty result list: the
\* compiler was not called, no transaction was started, committed or rolled back by
\* the batch, and no plan was run
C30_EmptyBatchDoesNothing ==
  /\ [](Len(queries) = 0 =>
          /\ pc \in {"idle", "resolved"}
          /\ results = <<>>
          /\ batchResponse = NoResponse
          /\ txInfo = NoTx /\ queryable = NoTx
          /\ log = <<>>
          /\ slots = <<>> /\ rows = <<>> /\ executed = 0
          /\ error = NoError)
  /\ [][(pc = "idle" /\ pc' # pc /\ Len(queries') = 0) =>
          /\ pc' = "resolved"
          /\ UNCHANGED <<txStatus, managerVars, callerTx>>]_vars

\* an empty batch outside an interactive transaction has resolved
C30_EmptyBatchResolved ==
  /\ pc = "resolved"
  /\ queries = <<>>
  /\ transaction.kind # "itx"
  /\ results = <<>>
  /\ \A id \in TxIds : txStatus[id] = "NONE"

====
